---- MODULE Spec2Model ----
(***************************************************************************)
(* Bilateral price indices (price_indices.py): the ten dictionary formulas *)
(* and their ten DataFrame adapters, as calls a caller makes with inputs   *)
(* drawn from bounded sets.                                                *)
(*                                                                         *)
(* Numbers.  The program computes in binary floating point.  The model     *)
(* computes the same expressions over the exact reals, in closed form:     *)
(*   Q      a rational <<n, d>> in lowest terms, d > 0;                    *)
(*   LF     a "log form"  sum_p c_p*log(p)  over primes p, c_p rational:   *)
(*          the value of log() of a positive rational, and every rational  *)
(*          combination of such values;                                    *)
(*   RSum   a sum of terms  c * prod_p p^(f_p)  with c rational and        *)
(*          0 < f_p < 1 rational: what exp() of a log form, sqrt() and     *)
(*          x ** (1/n) of a rational, and sums and products of those are;  *)
(*   Real   (num/den) * exp(xn/xd): a quotient of two RSums, times the     *)
(*          exponential of a quotient that Sato-Vartia's logarithmic-mean  *)
(*          weights produce (a reciprocal of a log form is no RSum).       *)
(* Rounding is therefore not modelled: two Reals are compared by RealEq,   *)
(* which is equality of the real numbers they denote.                      *)
(***************************************************************************)
EXTENDS Integers, FiniteSets, Sequences, TLC

(***************************************************************************)
(* Rationals                                                               *)
(***************************************************************************)
Abs(x) == IF x < 0 THEN -x ELSE x

RECURSIVE GCD(_, _)
GCD(a, b) == IF b = 0 THEN a ELSE GCD(b, a % b)

\* n/d in lowest terms with a positive denominator (d # 0)
Q(n, d) ==
    LET g == GCD(Abs(n), Abs(d))
        s == IF d < 0 THEN -1 ELSE 1
    IN  <<(s * n) \div g, (s * d) \div g>>

QInt(n) == <<n, 1>>
QZero == <<0, 1>>
QOne == <<1, 1>>
QAdd(x, y) == Q(x[1] * y[2] + y[1] * x[2], x[2] * y[2])
QNeg(x) == <<-x[1], x[2]>>
QSub(x, y) == QAdd(x, QNeg(y))
QMul(x, y) == Q(x[1] * y[1], x[2] * y[2])
\* y # QZero
QDiv(x, y) == Q(x[1] * y[2], x[2] * y[1])
QLess(x, y) == x[1] * y[2] < y[1] * x[2]
QFloor(x) == x[1] \div x[2]
QFrac(x) == QSub(x, QInt(QFloor(x)))

\* sum of f[x] over x \in S, f a function to rationals
RECURSIVE QSumOver(_, _)
QSumOver(f, S) ==
    IF S = {} THEN QZero
    ELSE LET x == CHOOSE y \in S : TRUE
         IN  QAdd(f[x], QSumOver(f, S \ {x}))

\* b^e for an integer e of either sign (b # 0 rational)
RECURSIVE QPowInt(_, _)
QPowInt(b, e) ==
    IF e = 0 THEN QOne
    ELSE IF e < 0 THEN QDiv(QOne, QPowInt(b, -e))
    ELSE QMul(b, QPowInt(b, e - 1))

(***************************************************************************)
(* Primes of a positive integer                                            *)
(***************************************************************************)
RECURSIVE SmallestFactor(_, _)
SmallestFactor(n, f) ==
    IF f * f > n THEN n
    ELSE IF n % f = 0 THEN f
    ELSE SmallestFactor(n, f + 1)

\* the multiplicity of p in n (n >= 1, p >= 2)
RECURSIVE Mult(_, _)
Mult(n, p) == IF n % p = 0 THEN 1 + Mult(n \div p, p) ELSE 0

RECURSIVE Strip(_, _)
Strip(n, p) == IF n % p = 0 THEN Strip(n \div p, p) ELSE n

RECURSIVE PrimesOf(_)
PrimesOf(n) ==
    IF n = 1 THEN {}
    ELSE LET p == SmallestFactor(n, 2)
         IN  {p} \cup PrimesOf(Strip(n, p))

(***************************************************************************)
(* Log forms: functions from a finite set of primes to nonzero rationals   *)
(***************************************************************************)
LFZero == [p \in {} |-> QZero]

LFTrim(f) == [p \in {r \in DOMAIN f : f[r] # QZero} |-> f[p]]

LFAt(f, p) == IF p \in DOMAIN f THEN f[p] ELSE QZero

LFAdd(f, g) == LFTrim([p \in DOMAIN f \cup DOMAIN g |-> QAdd(LFAt(f, p), LFAt(g, p))])

LFScale(f, c) == LFTrim([p \in DOMAIN f |-> QMul(f[p], c)])

LFSub(f, g) == LFAdd(f, LFScale(g, QInt(-1)))

\* sum of f[x] over x \in S, f a function to log forms
RECURSIVE LFSumOver(_, _)
LFSumOver(f, S) ==
    IF S = {} THEN LFZero
    ELSE LET x == CHOOSE y \in S : TRUE
         IN  LFAdd(f[x], LFSumOver(f, S \ {x}))

\* log(x) for a rational x > 0: the exponents of its prime factorisation
Log(x) ==
    LET P == PrimesOf(x[1]) \cup PrimesOf(x[2])
    IN  [p \in P |-> QInt(Mult(x[1], p) - Mult(x[2], p))]

(***************************************************************************)
(* RSum: functions from keys to nonzero rationals; a key is a log form     *)
(* with every coefficient in (0, 1), and stands for prod_p p^(f_p)         *)
(***************************************************************************)
RZero == [k \in {} |-> QZero]

RTrim(a) == [k \in {r \in DOMAIN a : a[r] # QZero} |-> a[k]]

RAt(a, k) == IF k \in DOMAIN a THEN a[k] ELSE QZero

ROfQ(x) == RTrim([k \in {LFZero} |-> x])

ROne == ROfQ(QOne)

\* the rational part of exp(f): prod_p p^floor(f_p)
RECURSIVE ExpCoef(_, _)
ExpCoef(f, S) ==
    IF S = {} THEN QOne
    ELSE LET p == CHOOSE r \in S : TRUE
         IN  QMul(QPowInt(QInt(p), QFloor(f[p])), ExpCoef(f, S \ {p}))

ExpKey(f) == LFTrim([p \in DOMAIN f |-> QFrac(f[p])])

\* exp(f) for a log form f
Exp(f) == [k \in {ExpKey(f)} |-> ExpCoef(f, DOMAIN f)]

RAdd(a, b) == RTrim([k \in DOMAIN a \cup DOMAIN b |-> QAdd(RAt(a, k), RAt(b, k))])

RScale(a, c) == RTrim([k \in DOMAIN a |-> QMul(a[k], c)])

\* the product of two terms, as a pair <<key, coefficient>>
TermMul(a, ka, b, kb) ==
    LET f == LFAdd(ka, kb)
    IN  <<ExpKey(f), QMul(QMul(a[ka], b[kb]), ExpCoef(f, DOMAIN f))>>

RECURSIVE TermSum(_, _)
TermSum(T, k) ==
    IF T = {} THEN QZero
    ELSE LET t == CHOOSE u \in T : TRUE
         IN  QAdd(IF t[3][1] = k THEN t[3][2] ELSE QZero, TermSum(T \ {t}, k))

RMul(a, b) ==
    LET T == {<<ka, kb, TermMul(a, ka, b, kb)>> : ka \in DOMAIN a, kb \in DOMAIN b}
    IN  RTrim([k \in {t[3][1] : t \in T} |-> TermSum(T, k)])

\* sum of f[x] over x \in S, f a function to RSums
RECURSIVE RSumOver(_, _)
RSumOver(f, S) ==
    IF S = {} THEN RZero
    ELSE LET x == CHOOSE y \in S : TRUE
         IN  RAdd(f[x], RSumOver(f, S \ {x}))

\* x ** e for rationals x > 0 and e
Pow(x, e) == Exp(LFScale(Log(x), e))

\* sqrt(x) for a rational x >= 0
Sqrt(x) == IF x = QZero THEN RZero ELSE Pow(x, <<1, 2>>)

(***************************************************************************)
(* Real: (num/den) * exp(xn/xd).  xd is a sum of reciprocals of log forms: *)
(* a function from primitive log forms y (coefficient 1 at the least       *)
(* prime) to the rational coefficient of 1/y; xn is the same with each     *)
(* term multiplied by a log form: a function from <<y, p>> to the          *)
(* coefficient of log(p)/y.  An exponent that is itself a log form is      *)
(* folded into num, so xn = RZero exactly when there is no exp factor.     *)
(***************************************************************************)
RealOf(n, d) == [num |-> n, den |-> d, xn |-> RZero, xd |-> RZero]

RealOfQ(x) == RealOf(ROfQ(x), ROne)

RealScale(x, k) == [x EXCEPT !.num = RScale(x.num, QInt(k))]

\* the rational a Real without radicals denotes
AsQ(x) == QDiv(RAt(x.num, LFZero), RAt(x.den, LFZero))

\* xn * d as a polynomial: a function from <<{y1, y2}, p>> to the coefficient
XCross(n, d) ==
    LET Y == {t[1] : t \in DOMAIN n} \cup DOMAIN d
        P == {t[2] : t \in DOMAIN n}
        c(S, p) ==
            IF Cardinality(S) = 1
            THEN LET y == CHOOSE z \in S : TRUE
                 IN  QMul(RAt(n, <<y, p>>), RAt(d, y))
            ELSE LET y == CHOOSE z \in S : TRUE
                     w == CHOOSE z \in S : z # y
                 IN  QAdd(QMul(RAt(n, <<y, p>>), RAt(d, w)),
                          QMul(RAt(n, <<w, p>>), RAt(d, y)))
    IN  RTrim([t \in {<<{y, w}, p>> : y \in Y, w \in Y, p \in P} |-> c(t[1], t[2])])

\* the two Reals denote the same number
RealEq(x, y) ==
    /\ RMul(x.num, y.den) = RMul(y.num, x.den)
    /\ IF x.xn = RZero \/ y.xn = RZero
       THEN x.xn = y.xn
       ELSE XCross(x.xn, y.xd) = XCross(y.xn, x.xd)

\* 1/f for a log form f # LFZero, as a one-term sum of reciprocals
InvLF(f) ==
    LET p == CHOOSE r \in DOMAIN f : \A s \in DOMAIN f : r <= s
    IN  [y \in {LFScale(f, QDiv(QOne, f[p]))} |-> QDiv(QOne, f[p])]

\* (a sum of reciprocals) * (a log form)
XTimesLF(a, f) ==
    [t \in {<<y, p>> : y \in DOMAIN a, p \in DOMAIN f} |-> QMul(a[t[1]], f[t[2]])]

\* exp(n/d) * k, for d # RZero
ExpX(n, d, k) ==
    LET y0 == CHOOSE y \in DOMAIN d : TRUE
        P == {t[2] : t \in DOMAIN n}
        f == LFTrim([p \in P |-> QDiv(RAt(n, <<y0, p>>), d[y0])])
    IN  IF n = XTimesLF(d, f)
        THEN RealScale(RealOf(Exp(f), ROne), k)
        ELSE [num |-> ROfQ(QInt(k)), den |-> ROne, xn |-> n, xd |-> d]

(***************************************************************************)
(* Outcomes of a call: a returned value or a raised exception              *)
(***************************************************************************)
Return(v) == [kind |-> "value", val |-> v, msg |-> ""]

Raise(exc, m) == [kind |-> exc, val |-> <<>>, msg |-> m]

\* the same outcome: the same number, or the same exception
SameOutcome(a, b) ==
    /\ a.kind = b.kind
    /\ IF a.kind = "value" THEN RealEq(a.val, b.val) ELSE a.msg = b.msg

(***************************************************************************)
(* Module constants                                                        *)
(***************************************************************************)
PD_DEFAULT_PRICE_COL == "price"
PD_DEFAULT_PRODUCT_ID_COL == "product_id"
PD_DEFAULT_QUANTITY_COL == "quantity"
PD_DEFAULT_TIME_PERIOD_COL == "time_period"
DEFAULT_NORMALIZATION_VAL == 100

NoMatched == "No matched products found."
NoMatchedDf == "No matched products are found."
BmwZero == "Denominator is zero, cannot compute BMW index."
MissingColumns == "DataFrame does not contain the necessary columns"
DivByZero == "float division by zero"
MathDomain == "math domain error"

(***************************************************************************)
(* The dictionary formulas.  A price or quantity map is a function from a  *)
(* set of product ids to integers; normalization_value is an integer.      *)
(***************************************************************************)
keys(d) == DOMAIN d

\* prod of f[x] over x \in S, f a function to RSums
RECURSIVE RProdOver(_, _)
RProdOver(f, S) ==
    IF S = {} THEN ROne
    ELSE LET x == CHOOSE y \in S : TRUE
         IN  RMul(f[x], RProdOver(f, S \ {x}))

\* sum of f[x] over x \in S, f a function to integers
RECURSIVE SumOver(_, _)
SumOver(f, S) ==
    IF S = {} THEN 0
    ELSE LET x == CHOOSE y \in S : TRUE
         IN  f[x] + SumOver(f, S \ {x})

\* variant of jevons_index that scales every factor instead of the product:
\* C9 must reject it
jevons_index_scaled_factors(prices_0, prices_t, normalization_value) ==
    LET matched_products == keys(prices_0) \cap keys(prices_t)
        n == Cardinality(matched_products)
        factor == [i \in matched_products |->
                      RScale(Pow(Q(prices_t[i], prices_0[i]), Q(1, n)),
                             QInt(normalization_value))]
        product == RProdOver(factor, matched_products)
    IN  IF n = 0 THEN Raise("ValueError", NoMatched)
        ELSE Return(RealOf(product, ROne))

\* variant of jevons_index that leaves products with a non-positive base
\* price out of the matched set: C30 must reject it
jevons_index_positive_basket(prices_0, prices_t, normalization_value) ==
    LET matched_products ==
            {i \in keys(prices_0) \cap keys(prices_t) : prices_0[i] > 0}
        n == Cardinality(matched_products)
        factor == [i \in matched_products |->
                      Pow(Q(prices_t[i], prices_0[i]), Q(1, n))]
        product == RProdOver(factor, matched_products)
    IN  IF n = 0 THEN Raise("ValueError", NoMatched)
        ELSE Return(RealScale(RealOf(product, ROne), normalization_value))

jevons_index(prices_0, prices_t, normalization_value) ==
    LET matched_products == keys(prices_0) \cap keys(prices_t)
        n == Cardinality(matched_products)
        factor == [i \in matched_products |->
                      Pow(Q(prices_t[i], prices_0[i]), Q(1, n))]
        product == RProdOver(factor, matched_products)
    IN  IF n = 0 THEN Raise("ValueError", NoMatched)
        ELSE IF \E i \in matched_products : prices_0[i] = 0
        THEN Raise("ZeroDivisionError", DivByZero)
        ELSE Return(RealScale(RealOf(product, ROne), normalization_value))

\* variant of dutot_index without the empty-basket guard: C4 must reject it
dutot_index_unguarded(prices_0, prices_t, normalization_value) ==
    LET matched_products == keys(prices_0) \cap keys(prices_t)
        sum_prices_0 == SumOver(prices_0, matched_products)
        sum_prices_t == SumOver(prices_t, matched_products)
    IN  IF sum_prices_0 = 0 THEN Raise("ZeroDivisionError", DivByZero)
        ELSE Return(RealScale(RealOfQ(Q(sum_prices_t, sum_prices_0)),
                              normalization_value))

\* variant of dutot_index that sums each map over all its keys: C7 must
\* reject it
dutot_index_all_keys(prices_0, prices_t, normalization_value) ==
    LET matched_products == keys(prices_0) \cap keys(prices_t)
        sum_prices_0 == SumOver(prices_0, keys(prices_0))
        sum_prices_t == SumOver(prices_t, keys(prices_t))
    IN  IF matched_products = {} THEN Raise("ValueError", NoMatched)
        ELSE IF sum_prices_0 = 0 THEN Raise("ZeroDivisionError", DivByZero)
        ELSE Return(RealScale(RealOfQ(Q(sum_prices_t, sum_prices_0)),
                              normalization_value))

dutot_index(prices_0, prices_t, normalization_value) ==
    LET matched_products == keys(prices_0) \cap keys(prices_t)
        sum_prices_0 == SumOver(prices_0, matched_products)
        sum_prices_t == SumOver(prices_t, matched_products)
    IN  IF matched_products = {} THEN Raise("ValueError", NoMatched)
        ELSE IF sum_prices_0 = 0 THEN Raise("ZeroDivisionError", DivByZero)
        ELSE Return(RealScale(RealOfQ(Q(sum_prices_t, sum_prices_0)),
                              normalization_value))

\* variant of carli_index that divides by the number of base prices instead of
\* the number of matched products: C12 must reject it
carli_index_all_count(prices_0, prices_t, normalization_value) ==
    LET matched_products == keys(prices_0) \cap keys(prices_t)
        n == Cardinality(keys(prices_0))
        sum_relatives == QSumOver([i \in matched_products |->
                                      Q(prices_t[i], prices_0[i])], matched_products)
    IN  IF matched_products = {} THEN Raise("ValueError", NoMatched)
        ELSE Return(RealScale(RealOfQ(QDiv(sum_relatives, QInt(n))),
                              normalization_value))

carli_index(prices_0, prices_t, normalization_value) ==
    LET matched_products == keys(prices_0) \cap keys(prices_t)
        n == Cardinality(matched_products)
        relative == [i \in matched_products |-> Q(prices_t[i], prices_0[i])]
        sum_relatives == QSumOver(relative, matched_products)
    IN  IF n = 0 THEN Raise("ValueError", NoMatched)
        ELSE IF \E i \in matched_products : prices_0[i] = 0
        THEN Raise("ZeroDivisionError", DivByZero)
        ELSE Return(RealScale(RealOfQ(QDiv(sum_relatives, QInt(n))),
                              normalization_value))

\* variant of bmw_index whose check fires when no matched price has changed
\* (numerator equal to denominator): C14 must reject it
bmw_index_raise_unchanged(prices_0, prices_t, normalization_value) ==
    LET matched_products == keys(prices_0) \cap keys(prices_t)
        price_ratio == [i \in matched_products |-> Q(prices_t[i], prices_0[i])]
        weight == [i \in matched_products |->
                      Pow(Q(prices_0[i], prices_t[i]), Q(1, 2))]
        numerator == RSumOver([i \in matched_products |->
                                  RScale(weight[i], price_ratio[i])],
                              matched_products)
        denominator == RSumOver(weight, matched_products)
    IN  IF matched_products = {} THEN Raise("ValueError", NoMatched)
        ELSE IF numerator = denominator THEN Raise("ValueError", BmwZero)
        ELSE Return(RealScale(RealOf(numerator, denominator), normalization_value))

\* variant of bmw_index that tests the denominator before the matched set:
\* C24 must reject it
bmw_index_denominator_first(prices_0, prices_t, normalization_value) ==
    LET matched_products == keys(prices_0) \cap keys(prices_t)
        price_ratio == [i \in matched_products |-> Q(prices_t[i], prices_0[i])]
        weight == [i \in matched_products |->
                      Pow(Q(prices_0[i], prices_t[i]), Q(1, 2))]
        numerator == RSumOver([i \in matched_products |->
                                  RScale(weight[i], price_ratio[i])],
                              matched_products)
        denominator == RSumOver(weight, matched_products)
    IN  IF denominator = RZero THEN Raise("ValueError", BmwZero)
        ELSE IF matched_products = {} THEN Raise("ValueError", NoMatched)
        ELSE Return(RealScale(RealOf(numerator, denominator), normalization_value))

bmw_index(prices_0, prices_t, normalization_value) ==
    LET matched_products == keys(prices_0) \cap keys(prices_t)
        price_ratio == [i \in matched_products |-> Q(prices_t[i], prices_0[i])]
        weight == [i \in matched_products |->
                      Pow(Q(prices_0[i], prices_t[i]), Q(1, 2))]
        numerator == RSumOver([i \in matched_products |->
                                  RScale(weight[i], price_ratio[i])],
                              matched_products)
        denominator == RSumOver(weight, matched_products)
    IN  IF matched_products = {} THEN Raise("ValueError", NoMatched)
        ELSE IF \E i \in matched_products : prices_0[i] = 0 \/ prices_t[i] = 0
        THEN Raise("ZeroDivisionError", DivByZero)
        ELSE IF denominator = RZero THEN Raise("ValueError", BmwZero)
        ELSE Return(RealScale(RealOf(numerator, denominator), normalization_value))

\* variant of laspeyres_index with the two sums exchanged: C11 must reject it
laspeyres_index_inverted(prices_0, prices_t, quantities_0, normalization_value) ==
    LET matched_products ==
            keys(prices_0) \cap keys(prices_t) \cap keys(quantities_0)
        numerator == SumOver([i \in matched_products |->
                                 quantities_0[i] * prices_0[i]], matched_products)
        denominator == SumOver([i \in matched_products |->
                                   quantities_0[i] * prices_t[i]], matched_products)
    IN  IF matched_products = {} THEN Raise("ValueError", NoMatched)
        ELSE IF denominator = 0 THEN Raise("ZeroDivisionError", DivByZero)
        ELSE Return(RealScale(RealOfQ(Q(numerator, denominator)),
                              normalization_value))

laspeyres_index(prices_0, prices_t, quantities_0, normalization_value) ==
    LET matched_products ==
            keys(prices_0) \cap keys(prices_t) \cap keys(quantities_0)
        numerator == SumOver([i \in matched_products |->
                                 quantities_0[i] * prices_t[i]], matched_products)
        denominator == SumOver([i \in matched_products |->
                                   quantities_0[i] * prices_0[i]], matched_products)
    IN  IF matched_products = {} THEN Raise("ValueError", NoMatched)
        ELSE IF denominator = 0 THEN Raise("ZeroDivisionError", DivByZero)
        ELSE Return(RealScale(RealOfQ(Q(numerator, denominator)),
                              normalization_value))

paasche_index(prices_0, prices_t, quantities_t, normalization_value) ==
    LET matched_products ==
            keys(prices_0) \cap keys(prices_t) \cap keys(quantities_t)
        numerator == SumOver([i \in matched_products |->
                                 quantities_t[i] * prices_t[i]], matched_products)
        denominator == SumOver([i \in matched_products |->
                                   quantities_t[i] * prices_0[i]], matched_products)
    IN  IF matched_products = {} THEN Raise("ValueError", NoMatched)
        ELSE IF denominator = 0 THEN Raise("ZeroDivisionError", DivByZero)
        ELSE Return(RealScale(RealOfQ(Q(numerator, denominator)),
                              normalization_value))

\* sqrt(laspeyres * paasche) of two returned values without radicals
SqrtOfProduct(laspeyres, paasche) ==
    LET x == QMul(AsQ(laspeyres), AsQ(paasche))
    IN  IF QLess(x, QZero) THEN Raise("ValueError", MathDomain)
        ELSE Return(RealOf(Sqrt(x), ROne))

\* variant of fisher_index that multiplies the square root of the two
\* sub-indices at normalization 1 by the normalization value, keeping its
\* sign: C27 must reject it
fisher_index_signed(prices_0, prices_t, quantities_0, quantities_t, normalization_value) ==
    LET laspeyres == laspeyres_index(prices_0, prices_t, quantities_0, 1)
        paasche == paasche_index(prices_0, prices_t, quantities_t, 1)
        root == SqrtOfProduct(laspeyres.val, paasche.val)
    IN  IF laspeyres.kind # "value" THEN laspeyres
        ELSE IF paasche.kind # "value" THEN paasche
        ELSE Return(RealScale(root.val, normalization_value))

\* variant of fisher_index that takes the arithmetic mean of the two
\* sub-indices instead of the geometric one: C28 must reject it
fisher_index_arithmetic(prices_0, prices_t, quantities_0, quantities_t, normalization_value) ==
    LET laspeyres ==
            laspeyres_index(prices_0, prices_t, quantities_0, normalization_value)
        paasche ==
            paasche_index(prices_0, prices_t, quantities_t, normalization_value)
    IN  IF laspeyres.kind # "value" THEN laspeyres
        ELSE IF paasche.kind # "value" THEN paasche
        ELSE Return(RealOfQ(QDiv(QAdd(AsQ(laspeyres.val), AsQ(paasche.val)), QInt(2))))

\* variant of fisher_index that normalizes only the Laspeyres sub-call: C10
\* must reject it
fisher_index_one_normalized(prices_0, prices_t, quantities_0, quantities_t, normalization_value) ==
    LET laspeyres ==
            laspeyres_index(prices_0, prices_t, quantities_0, normalization_value)
        paasche ==
            paasche_index(prices_0, prices_t, quantities_t, 1)
    IN  IF laspeyres.kind # "value" THEN laspeyres
        ELSE IF paasche.kind # "value" THEN paasche
        ELSE SqrtOfProduct(laspeyres.val, paasche.val)

\* variant of fisher_index that falls back on the Laspeyres value when the
\* Paasche sub-call fails: C18 must reject it
fisher_index_partial(prices_0, prices_t, quantities_0, quantities_t, normalization_value) ==
    LET laspeyres ==
            laspeyres_index(prices_0, prices_t, quantities_0, normalization_value)
        paasche ==
            paasche_index(prices_0, prices_t, quantities_t, normalization_value)
    IN  IF laspeyres.kind # "value" THEN laspeyres
        ELSE IF paasche.kind # "value" THEN laspeyres
        ELSE SqrtOfProduct(laspeyres.val, paasche.val)

fisher_index(prices_0, prices_t, quantities_0, quantities_t, normalization_value) ==
    LET laspeyres ==
            laspeyres_index(prices_0, prices_t, quantities_0, normalization_value)
        paasche ==
            paasche_index(prices_0, prices_t, quantities_t, normalization_value)
    IN  IF laspeyres.kind # "value" THEN laspeyres
        ELSE IF paasche.kind # "value" THEN paasche
        ELSE SqrtOfProduct(laspeyres.val, paasche.val)

\* variant of tornqvist_weights whose totals run over every product supplied
\* for the period, matched or not: C19 must reject it
tornqvist_weights_all_products(prices_0, prices_t, quantities_0, quantities_t) ==
    LET matched_products ==
            keys(prices_0) \cap keys(prices_t)
                \cap keys(quantities_0) \cap keys(quantities_t)
        all_0 == keys(prices_0) \cap keys(quantities_0)
        all_t == keys(prices_t) \cap keys(quantities_t)
        total_0 == SumOver([i \in all_0 |-> prices_0[i] * quantities_0[i]], all_0)
        total_t == SumOver([i \in all_t |-> prices_t[i] * quantities_t[i]], all_t)
    IN  [i \in matched_products |->
            QDiv(QAdd(Q(prices_0[i] * quantities_0[i], total_0),
                      Q(prices_t[i] * quantities_t[i], total_t)), QInt(2))]

\* the weight (s_0[i] / total_0 + s_t[i] / total_t) / 2 of each matched product
tornqvist_weights(prices_0, prices_t, quantities_0, quantities_t) ==
    LET matched_products ==
            keys(prices_0) \cap keys(prices_t)
                \cap keys(quantities_0) \cap keys(quantities_t)
        s_0 == [i \in matched_products |-> prices_0[i] * quantities_0[i]]
        s_t == [i \in matched_products |-> prices_t[i] * quantities_t[i]]
        total_0 == SumOver(s_0, matched_products)
        total_t == SumOver(s_t, matched_products)
    IN  [i \in matched_products |->
            QDiv(QAdd(Q(s_0[i], total_0), Q(s_t[i], total_t)), QInt(2))]

tornqvist_index(prices_0, prices_t, quantities_0, quantities_t, normalization_value) ==
    LET matched_products ==
            keys(prices_0) \cap keys(prices_t)
                \cap keys(quantities_0) \cap keys(quantities_t)
        total_0 == SumOver([i \in matched_products |->
                               prices_0[i] * quantities_0[i]], matched_products)
        total_t == SumOver([i \in matched_products |->
                               prices_t[i] * quantities_t[i]], matched_products)
        w == tornqvist_weights(prices_0, prices_t, quantities_0, quantities_t)
        log_index == LFSumOver([i \in matched_products |->
                                   LFScale(Log(Q(prices_t[i], prices_0[i])), w[i])],
                               matched_products)
    IN  IF matched_products = {} THEN Raise("ValueError", NoMatched)
        ELSE IF total_0 = 0 \/ total_t = 0
                    \/ \E i \in matched_products : prices_0[i] = 0
        THEN Raise("ZeroDivisionError", DivByZero)
        ELSE Return(RealScale(RealOf(Exp(log_index), ROne), normalization_value))

walsh_index(prices_0, prices_t, quantities_0, quantities_t, normalization_value) ==
    LET matched_products ==
            keys(prices_0) \cap keys(prices_t)
                \cap keys(quantities_0) \cap keys(quantities_t)
        root == [i \in matched_products |->
                    Sqrt(QInt(quantities_0[i] * quantities_t[i]))]
        numerator == RSumOver([i \in matched_products |->
                                  RScale(root[i], QInt(prices_t[i]))],
                              matched_products)
        denominator == RSumOver([i \in matched_products |->
                                    RScale(root[i], QInt(prices_0[i]))],
                                matched_products)
    IN  IF matched_products = {} THEN Raise("ValueError", NoMatched)
        ELSE IF denominator = RZero THEN Raise("ZeroDivisionError", DivByZero)
        ELSE Return(RealScale(RealOf(numerator, denominator), normalization_value))

\* the shares s0 and st of each matched product, as the first loop forms them
sato_vartia_shares(prices_0, prices_t, quantities_0, quantities_t) ==
    LET matched_products ==
            keys(prices_0) \cap keys(prices_t)
                \cap keys(quantities_0) \cap keys(quantities_t)
        s_0 == [i \in matched_products |-> prices_0[i] * quantities_0[i]]
        s_t == [i \in matched_products |-> prices_t[i] * quantities_t[i]]
        total_0 == SumOver(s_0, matched_products)
        total_t == SumOver(s_t, matched_products)
    IN  [i \in matched_products |->
            [s0 |-> Q(s_0[i], total_0), st |-> Q(s_t[i], total_t)]]

\* log(st) - log(s0), the divisor of the first loop
sato_vartia_dlog(prices_0, prices_t, quantities_0, quantities_t) ==
    LET share == sato_vartia_shares(prices_0, prices_t, quantities_0, quantities_t)
    IN  [i \in DOMAIN share |-> LFSub(Log(share[i].st), Log(share[i].s0))]

\* phi after the first loop (no divisor is zero): (st - s0) / (log(st) - log(s0))
sato_vartia_phi(prices_0, prices_t, quantities_0, quantities_t) ==
    LET share == sato_vartia_shares(prices_0, prices_t, quantities_0, quantities_t)
        dlog == sato_vartia_dlog(prices_0, prices_t, quantities_0, quantities_t)
    IN  [i \in DOMAIN share |->
            RScale(InvLF(dlog[i]), QSub(share[i].st, share[i].s0))]

\* denominator after the first loop
sato_vartia_denominator(prices_0, prices_t, quantities_0, quantities_t) ==
    LET phi == sato_vartia_phi(prices_0, prices_t, quantities_0, quantities_t)
    IN  RSumOver(phi, DOMAIN phi)

\* phi after the second loop's phi[i] /= denominator: the quotient over / under
sato_vartia_normalized(prices_0, prices_t, quantities_0, quantities_t) ==
    LET phi == sato_vartia_phi(prices_0, prices_t, quantities_0, quantities_t)
        denominator ==
            sato_vartia_denominator(prices_0, prices_t, quantities_0, quantities_t)
    IN  [i \in DOMAIN phi |-> [over |-> phi[i], under |-> denominator]]

\* variant of sato_vartia_index that returns the normalization value where a
\* divisor log(st) - log(s0) is zero, instead of dividing: C26 must reject it
sato_vartia_index_no_division(prices_0, prices_t, quantities_0, quantities_t, normalization_value) ==
    LET matched_products ==
            keys(prices_0) \cap keys(prices_t)
                \cap keys(quantities_0) \cap keys(quantities_t)
        dlog == sato_vartia_dlog(prices_0, prices_t, quantities_0, quantities_t)
        phi == sato_vartia_phi(prices_0, prices_t, quantities_0, quantities_t)
        denominator ==
            sato_vartia_denominator(prices_0, prices_t, quantities_0, quantities_t)
        numerator == RSumOver([i \in matched_products |->
                                  XTimesLF(phi[i], Log(Q(prices_t[i], prices_0[i])))],
                              matched_products)
    IN  IF matched_products = {} THEN Raise("ValueError", NoMatched)
        ELSE IF \E i \in matched_products : dlog[i] = LFZero
        THEN Return(RealScale(RealOf(Exp(LFZero), ROne), normalization_value))
        ELSE Return(ExpX(numerator, denominator, normalization_value))

sato_vartia_index(prices_0, prices_t, quantities_0, quantities_t, normalization_value) ==
    LET matched_products ==
            keys(prices_0) \cap keys(prices_t)
                \cap keys(quantities_0) \cap keys(quantities_t)
        s_0 == [i \in matched_products |-> prices_0[i] * quantities_0[i]]
        s_t == [i \in matched_products |-> prices_t[i] * quantities_t[i]]
        total_0 == SumOver(s_0, matched_products)
        total_t == SumOver(s_t, matched_products)
        dlog == sato_vartia_dlog(prices_0, prices_t, quantities_0, quantities_t)
        phi == sato_vartia_phi(prices_0, prices_t, quantities_0, quantities_t)
        denominator ==
            sato_vartia_denominator(prices_0, prices_t, quantities_0, quantities_t)
        \* the second loop: phi[i] /= denominator; numerator += phi[i] * log(..)
        numerator == RSumOver([i \in matched_products |->
                                  XTimesLF(phi[i], Log(Q(prices_t[i], prices_0[i])))],
                              matched_products)
    IN  IF matched_products = {} THEN Raise("ValueError", NoMatched)
        ELSE IF total_0 = 0 \/ total_t = 0 THEN Raise("ZeroDivisionError", DivByZero)
        \* log(0.0)
        ELSE IF \E i \in matched_products : s_0[i] = 0 \/ s_t[i] = 0
        THEN Raise("ValueError", MathDomain)
        ELSE IF \E i \in matched_products : dlog[i] = LFZero
        THEN Raise("ZeroDivisionError", DivByZero)
        ELSE IF denominator = RZero THEN Raise("ZeroDivisionError", DivByZero)
        ELSE Return(ExpX(numerator, denominator, normalization_value))

(***************************************************************************)
(* The DataFrame adapters.  A DataFrame is its set of column names and its *)
(* rows, each row a function from the column names to the cell's value; no *)
(* two rows of a table share product id and period (the index that         *)
(* set_index builds is unique).  The column-name arguments are the         *)
(* defaults.  A Series is a function from its index (product ids) to its   *)
(* values.  np.sum and np.mean of a Series are the Series' own sum and     *)
(* mean, which skip NaN entries.                                           *)
(***************************************************************************)
AllColumns == {PD_DEFAULT_PRICE_COL, PD_DEFAULT_QUANTITY_COL,
               PD_DEFAULT_PRODUCT_ID_COL, PD_DEFAULT_TIME_PERIOD_COL}

\* variant of Series that does not filter the rows by period: C5 must reject it
SeriesAnyPeriod(df, period, col) ==
    [i \in {r[PD_DEFAULT_PRODUCT_ID_COL] : r \in df.rows} |->
        (CHOOSE r \in df.rows : r[PD_DEFAULT_PRODUCT_ID_COL] = i)[col]]

\* variant of Series that keeps the rows of the period and of every later
\* period: C21 must reject it
SeriesFromPeriod(df, period, col) ==
    LET sub == {r \in df.rows : r[PD_DEFAULT_TIME_PERIOD_COL] >= period}
    IN  [i \in {r[PD_DEFAULT_PRODUCT_ID_COL] : r \in sub} |->
            (CHOOSE r \in sub : r[PD_DEFAULT_PRODUCT_ID_COL] = i)[col]]

\* df[df[time_period_col] == period].set_index(product_id_col)[col]
Series(df, period, col) ==
    LET sub == {r \in df.rows : r[PD_DEFAULT_TIME_PERIOD_COL] = period}
    IN  [i \in {r[PD_DEFAULT_PRODUCT_ID_COL] : r \in sub} |->
            (CHOOSE r \in sub : r[PD_DEFAULT_PRODUCT_ID_COL] = i)[col]]

\* the first column that indexing the table for a price Series does not find
FirstMissing(df) ==
    IF PD_DEFAULT_TIME_PERIOD_COL \notin df.columns THEN PD_DEFAULT_TIME_PERIOD_COL
    ELSE IF PD_DEFAULT_PRODUCT_ID_COL \notin df.columns THEN PD_DEFAULT_PRODUCT_ID_COL
    ELSE PD_DEFAULT_PRICE_COL

\* variant of UnweightedColumns that also asks for the quantity column: C23
\* must reject it
UnweightedColumnsWithQuantity ==
    {PD_DEFAULT_PRICE_COL, PD_DEFAULT_QUANTITY_COL,
     PD_DEFAULT_PRODUCT_ID_COL, PD_DEFAULT_TIME_PERIOD_COL}

UnweightedColumns ==
    {PD_DEFAULT_PRICE_COL, PD_DEFAULT_PRODUCT_ID_COL, PD_DEFAULT_TIME_PERIOD_COL}

WeightedColumns ==
    {PD_DEFAULT_PRICE_COL, PD_DEFAULT_QUANTITY_COL,
     PD_DEFAULT_PRODUCT_ID_COL, PD_DEFAULT_TIME_PERIOD_COL}

jevons_index_from_df(df, base_period, compared_period, normalization_value) ==
    LET required_columns == UnweightedColumns
        prices_0 == Series(df, base_period, PD_DEFAULT_PRICE_COL)
        prices_t == Series(df, compared_period, PD_DEFAULT_PRICE_COL)
        matched_products == DOMAIN prices_0 \cap DOMAIN prices_t
        ratios == [i \in matched_products |-> Q(prices_t[i], prices_0[i])]
        mean_log == LFScale(LFSumOver([i \in matched_products |-> Log(ratios[i])],
                                      matched_products),
                            Q(1, Cardinality(matched_products)))
        geometric_mean == Exp(mean_log)
    IN  IF ~(required_columns \subseteq df.columns)
        THEN Raise("AttributeError", MissingColumns)
        ELSE IF matched_products = {} THEN Raise("ValueError", NoMatched)
        ELSE Return(RealScale(RealOf(geometric_mean, ROne), normalization_value))

dutot_index_from_df(df, base_period, compared_period, normalization_value) ==
    LET prices_0 == Series(df, base_period, PD_DEFAULT_PRICE_COL)
        prices_t == Series(df, compared_period, PD_DEFAULT_PRICE_COL)
        matched_products == DOMAIN prices_0 \cap DOMAIN prices_t
        sum_0 == SumOver(prices_0, matched_products)
        sum_t == SumOver(prices_t, matched_products)
    IN  IF ~(UnweightedColumns \subseteq df.columns)
        THEN Raise("KeyError", FirstMissing(df))
        ELSE IF matched_products = {} THEN Raise("ValueError", NoMatched)
        ELSE Return(RealScale(RealOfQ(Q(sum_t, sum_0)), normalization_value))

\* variant of carli_index_from_df that examines the matched set before it
\* checks the columns: C20 must reject it
carli_index_from_df_late_check(df, base_period, compared_period, normalization_value) ==
    LET required_columns == UnweightedColumns
        indexed == {PD_DEFAULT_PRODUCT_ID_COL, PD_DEFAULT_TIME_PERIOD_COL}
                       \subseteq df.columns
        index(period) ==
            IF indexed
            THEN {r[PD_DEFAULT_PRODUCT_ID_COL] :
                     r \in {x \in df.rows : x[PD_DEFAULT_TIME_PERIOD_COL] = period}}
            ELSE {}
        matched_products == index(base_period) \cap index(compared_period)
        prices_0 == Series(df, base_period, PD_DEFAULT_PRICE_COL)
        prices_t == Series(df, compared_period, PD_DEFAULT_PRICE_COL)
        relatives == [i \in matched_products |-> Q(prices_t[i], prices_0[i])]
        arithmetic_mean == QDiv(QSumOver(relatives, matched_products),
                                QInt(Cardinality(matched_products)))
    IN  IF indexed /\ matched_products = {} THEN Raise("ValueError", NoMatched)
        ELSE IF ~(required_columns \subseteq df.columns)
        THEN Raise("AttributeError", MissingColumns)
        ELSE Return(RealScale(RealOfQ(arithmetic_mean), normalization_value))

carli_index_from_df(df, base_period, compared_period, normalization_value) ==
    LET required_columns == UnweightedColumns
        prices_0 == Series(df, base_period, PD_DEFAULT_PRICE_COL)
        prices_t == Series(df, compared_period, PD_DEFAULT_PRICE_COL)
        matched_products == DOMAIN prices_0 \cap DOMAIN prices_t
        relatives == [i \in matched_products |-> Q(prices_t[i], prices_0[i])]
        arithmetic_mean == QDiv(QSumOver(relatives, matched_products),
                                QInt(Cardinality(matched_products)))
    IN  IF ~(required_columns \subseteq df.columns)
        THEN Raise("AttributeError", MissingColumns)
        ELSE IF matched_products = {} THEN Raise("ValueError", NoMatched)
        ELSE Return(RealScale(RealOfQ(arithmetic_mean), normalization_value))

bmw_index_from_df(df, base_period, compared_period, normalization_value) ==
    LET required_columns == UnweightedColumns
        prices_0 == Series(df, base_period, PD_DEFAULT_PRICE_COL)
        prices_t == Series(df, compared_period, PD_DEFAULT_PRICE_COL)
        matched_products == DOMAIN prices_0 \cap DOMAIN prices_t
        price_ratios == [i \in matched_products |-> Q(prices_t[i], prices_0[i])]
        weights == [i \in matched_products |-> Sqrt(Q(prices_0[i], prices_t[i]))]
        numerator == RSumOver([i \in matched_products |->
                                  RScale(weights[i], price_ratios[i])],
                              matched_products)
        denominator == RSumOver(weights, matched_products)
    IN  IF ~(required_columns \subseteq df.columns)
        THEN Raise("AttributeError", MissingColumns)
        ELSE IF matched_products = {} THEN Raise("ValueError", NoMatched)
        ELSE IF denominator = RZero THEN Raise("ValueError", BmwZero)
        ELSE Return(RealScale(RealOf(numerator, denominator), normalization_value))

\* variant of laspeyres_index_from_df that weights with the quantities of
\* the compared period's rows: C22 must reject it
laspeyres_index_from_df_compared_quantities(df, base_period, compared_period, normalization_value) ==
    LET required_columns == WeightedColumns
        prices_0 == Series(df, base_period, PD_DEFAULT_PRICE_COL)
        prices_t == Series(df, compared_period, PD_DEFAULT_PRICE_COL)
        quantities_t == Series(df, compared_period, PD_DEFAULT_QUANTITY_COL)
        matched_products ==
            DOMAIN prices_0 \cap DOMAIN prices_t \cap DOMAIN quantities_t
        numerator == SumOver([i \in matched_products |->
                                 quantities_t[i] * prices_t[i]], matched_products)
        denominator == SumOver([i \in matched_products |->
                                   quantities_t[i] * prices_0[i]], matched_products)
    IN  IF ~(required_columns \subseteq df.columns)
        THEN Raise("AttributeError", MissingColumns)
        ELSE IF matched_products = {} THEN Raise("ValueError", NoMatchedDf)
        ELSE Return(RealScale(RealOfQ(Q(numerator, denominator)),
                              normalization_value))

laspeyres_index_from_df(df, base_period, compared_period, normalization_value) ==
    LET required_columns == WeightedColumns
        prices_0 == Series(df, base_period, PD_DEFAULT_PRICE_COL)
        prices_t == Series(df, compared_period, PD_DEFAULT_PRICE_COL)
        quantities_0 == Series(df, base_period, PD_DEFAULT_QUANTITY_COL)
        matched_products ==
            DOMAIN prices_0 \cap DOMAIN prices_t \cap DOMAIN quantities_0
        numerator == SumOver([i \in matched_products |->
                                 quantities_0[i] * prices_t[i]], matched_products)
        denominator == SumOver([i \in matched_products |->
                                   quantities_0[i] * prices_0[i]], matched_products)
    IN  IF ~(required_columns \subseteq df.columns)
        THEN Raise("AttributeError", MissingColumns)
        ELSE IF matched_products = {} THEN Raise("ValueError", NoMatchedDf)
        ELSE Return(RealScale(RealOfQ(Q(numerator, denominator)),
                              normalization_value))

paasche_index_from_df(df, base_period, compared_period, normalization_value) ==
    LET required_columns == WeightedColumns
        prices_0 == Series(df, base_period, PD_DEFAULT_PRICE_COL)
        prices_t == Series(df, compared_period, PD_DEFAULT_PRICE_COL)
        quantities_t == Series(df, compared_period, PD_DEFAULT_QUANTITY_COL)
        matched_products ==
            DOMAIN prices_0 \cap DOMAIN prices_t \cap DOMAIN quantities_t
        numerator == SumOver([i \in matched_products |->
                                 quantities_t[i] * prices_t[i]], matched_products)
        denominator == SumOver([i \in matched_products |->
                                   quantities_t[i] * prices_0[i]], matched_products)
    IN  IF ~(required_columns \subseteq df.columns)
        THEN Raise("AttributeError", MissingColumns)
        ELSE IF matched_products = {} THEN Raise("ValueError", NoMatchedDf)
        ELSE Return(RealScale(RealOfQ(Q(numerator, denominator)),
                              normalization_value))

fisher_index_from_df(df, base_period, compared_period, normalization_value) ==
    LET laspeyres ==
            laspeyres_index_from_df(df, base_period, compared_period,
                                    normalization_value)
        paasche ==
            paasche_index_from_df(df, base_period, compared_period,
                                  normalization_value)
    IN  IF laspeyres.kind # "value" THEN laspeyres
        ELSE IF paasche.kind # "value" THEN paasche
        ELSE SqrtOfProduct(laspeyres.val, paasche.val)

tornqvist_index_from_df(df, base_period, compared_period, normalization_value) ==
    LET required_columns == WeightedColumns
        prices_0 == Series(df, base_period, PD_DEFAULT_PRICE_COL)
        prices_t == Series(df, compared_period, PD_DEFAULT_PRICE_COL)
        quantities_0 == Series(df, base_period, PD_DEFAULT_QUANTITY_COL)
        quantities_t == Series(df, compared_period, PD_DEFAULT_QUANTITY_COL)
        matched_products ==
            DOMAIN prices_0 \cap DOMAIN prices_t
                \cap DOMAIN quantities_0 \cap DOMAIN quantities_t
        s_0 == [i \in matched_products |-> prices_0[i] * quantities_0[i]]
        s_t == [i \in matched_products |-> prices_t[i] * quantities_t[i]]
        total_0 == SumOver(s_0, matched_products)
        total_t == SumOver(s_t, matched_products)
        log_index ==
            LFSumOver([i \in matched_products |->
                          LFScale(Log(Q(prices_t[i], prices_0[i])),
                                  QDiv(QAdd(Q(s_0[i], total_0), Q(s_t[i], total_t)),
                                       QInt(2)))],
                      matched_products)
    IN  IF ~(required_columns \subseteq df.columns)
        THEN Raise("AttributeError", MissingColumns)
        ELSE IF matched_products = {} THEN Raise("ValueError", NoMatchedDf)
        ELSE Return(RealScale(RealOf(Exp(log_index), ROne), normalization_value))

walsh_index_from_df(df, base_period, compared_period, normalization_value) ==
    LET required_columns == WeightedColumns
        prices_0 == Series(df, base_period, PD_DEFAULT_PRICE_COL)
        prices_t == Series(df, compared_period, PD_DEFAULT_PRICE_COL)
        quantities_0 == Series(df, base_period, PD_DEFAULT_QUANTITY_COL)
        quantities_t == Series(df, compared_period, PD_DEFAULT_QUANTITY_COL)
        matched_products ==
            DOMAIN prices_0 \cap DOMAIN prices_t
                \cap DOMAIN quantities_0 \cap DOMAIN quantities_t
        sqrt_quantities_0_t ==
            [i \in matched_products |-> Sqrt(QInt(quantities_0[i] * quantities_t[i]))]
        numerator == RSumOver([i \in matched_products |->
                                  RScale(sqrt_quantities_0_t[i], QInt(prices_t[i]))],
                              matched_products)
        denominator == RSumOver([i \in matched_products |->
                                    RScale(sqrt_quantities_0_t[i], QInt(prices_0[i]))],
                                matched_products)
    IN  IF ~(required_columns \subseteq df.columns)
        THEN Raise("AttributeError", MissingColumns)
        ELSE IF matched_products = {} THEN Raise("ValueError", NoMatchedDf)
        ELSE Return(RealScale(RealOf(numerator, denominator), normalization_value))

\* the float NaN, as the quotient 0/0
NaN == RealOf(RZero, RZero)

\* variant of sato_vartia_index_from_df in which the sums do not skip NaN,
\* so that one NaN entry of phi makes the result NaN: C25 must reject it
sato_vartia_index_from_df_nan(df, base_period, compared_period, normalization_value) ==
    LET required_columns == WeightedColumns
        prices_0 == Series(df, base_period, PD_DEFAULT_PRICE_COL)
        prices_t == Series(df, compared_period, PD_DEFAULT_PRICE_COL)
        quantities_0 == Series(df, base_period, PD_DEFAULT_QUANTITY_COL)
        quantities_t == Series(df, compared_period, PD_DEFAULT_QUANTITY_COL)
        matched_products ==
            DOMAIN prices_0 \cap DOMAIN prices_t
                \cap DOMAIN quantities_0 \cap DOMAIN quantities_t
        s_0 == [i \in matched_products |-> prices_0[i] * quantities_0[i]]
        s_t == [i \in matched_products |-> prices_t[i] * quantities_t[i]]
        total_0 == SumOver(s_0, matched_products)
        total_t == SumOver(s_t, matched_products)
        s0 == [i \in matched_products |-> Q(s_0[i], total_0)]
        st == [i \in matched_products |-> Q(s_t[i], total_t)]
        dlog == [i \in matched_products |-> LFSub(Log(st[i]), Log(s0[i]))]
        phi == [i \in matched_products |-> RScale(InvLF(dlog[i]), QSub(st[i], s0[i]))]
        sum_phi == RSumOver(phi, matched_products)
        numerator == RSumOver([i \in matched_products |->
                                  XTimesLF(phi[i], Log(Q(prices_t[i], prices_0[i])))],
                              matched_products)
    IN  IF ~(required_columns \subseteq df.columns)
        THEN Raise("AttributeError", MissingColumns)
        ELSE IF matched_products = {} THEN Raise("ValueError", NoMatchedDf)
        ELSE IF \E i \in matched_products : dlog[i] = LFZero THEN Return(NaN)
        ELSE Return(ExpX(numerator, sum_phi, normalization_value))

sato_vartia_index_from_df(df, base_period, compared_period, normalization_value) ==
    LET required_columns == WeightedColumns
        prices_0 == Series(df, base_period, PD_DEFAULT_PRICE_COL)
        prices_t == Series(df, compared_period, PD_DEFAULT_PRICE_COL)
        quantities_0 == Series(df, base_period, PD_DEFAULT_QUANTITY_COL)
        quantities_t == Series(df, compared_period, PD_DEFAULT_QUANTITY_COL)
        matched_products ==
            DOMAIN prices_0 \cap DOMAIN prices_t
                \cap DOMAIN quantities_0 \cap DOMAIN quantities_t
        s_0 == [i \in matched_products |-> prices_0[i] * quantities_0[i]]
        s_t == [i \in matched_products |-> prices_t[i] * quantities_t[i]]
        total_0 == SumOver(s_0, matched_products)
        total_t == SumOver(s_t, matched_products)
        s0 == [i \in matched_products |-> Q(s_0[i], total_0)]
        st == [i \in matched_products |-> Q(s_t[i], total_t)]
        dlog == [i \in matched_products |-> LFSub(Log(st[i]), Log(s0[i]))]
        \* (st - s0) / (log(st) - log(s0)) is 0/0 = NaN where the shares are equal
        notna == {i \in matched_products : dlog[i] # LFZero}
        phi == [i \in notna |-> RScale(InvLF(dlog[i]), QSub(st[i], s0[i]))]
        \* np.sum(phi) skips the NaN entries; NaN / x stays NaN
        sum_phi == RSumOver(phi, notna)
        \* np.sum(phi * log(...)) skips the NaN entries, and is 0.0 when all are
        numerator == RSumOver([i \in notna |->
                                  XTimesLF(phi[i], Log(Q(prices_t[i], prices_0[i])))],
                              notna)
    IN  IF ~(required_columns \subseteq df.columns)
        THEN Raise("AttributeError", MissingColumns)
        ELSE IF matched_products = {} THEN Raise("ValueError", NoMatchedDf)
        ELSE IF notna = {}
        THEN Return(RealScale(RealOf(Exp(LFZero), ROne), normalization_value))
        ELSE Return(ExpX(numerator, sum_phi, normalization_value))

(***************************************************************************)
(* The caller.  Every entity is transient: a call is made with arguments   *)
(* the caller supplies, and returns a value or raises; nothing is retained *)
(* between calls.                                                          *)
(***************************************************************************)
MaxPrice == 2
Prices == 1..MaxPrice
Quantities == {1, 2}
Products == {"a", "b"}
Periods == {0, 1}
NormValues == {-1, 1, 2}

Maps(V) == UNION {[S -> V] : S \in SUBSET Products}
PriceMaps == Maps(Prices)
QuantityMaps == Maps(Quantities)
NoMap == [i \in {} |-> 0]

\* the tables with all four columns: at most one row per product and period
Cells == Products \X Periods
Row(c, v) ==
    [col \in AllColumns |->
        IF col = PD_DEFAULT_PRODUCT_ID_COL THEN c[1]
        ELSE IF col = PD_DEFAULT_TIME_PERIOD_COL THEN c[2]
        ELSE IF col = PD_DEFAULT_PRICE_COL THEN v[1]
        ELSE v[2]]
FullTables ==
    UNION {{{Row(c, f[c]) : c \in S} : f \in [S -> Prices \X Quantities]}
             : S \in SUBSET Cells}
\* a table with the columns C only
Project(rows, C) == {[col \in C |-> r[col]] : r \in rows}
DataFrames ==
    {[columns |-> C, rows |-> Project(rows, C)] :
        C \in SUBSET AllColumns, rows \in FullTables}
NoFrame == [columns |-> {}, rows |-> {}]

VARIABLES
    called,                 \* the function of the call made, "none" before it
    prices_0, prices_t, quantities_0, quantities_t, normalization_value,
    df, base_period, compared_period,
    result,                 \* what the call returned or raised
    module_constants,       \* the module-level names and their values
    failed_before,          \* an earlier call on the data the caller holds failed
    threads,                \* of each concurrent caller: position, function, outcome
    frames                  \* the local variables of each call in progress

dictArgs == <<prices_0, prices_t, quantities_0, quantities_t>>
dfArgs == <<df, base_period, compared_period>>
otherVars == <<module_constants, failed_before, threads, frames>>
vars == <<called, prices_0, prices_t, quantities_0, quantities_t,
          normalization_value, df, base_period, compared_period, result,
          otherVars>>

\* the module-level assignments
ModuleConstants ==
    [PD_DEFAULT_PRICE_COL |-> PD_DEFAULT_PRICE_COL,
     PD_DEFAULT_PRODUCT_ID_COL |-> PD_DEFAULT_PRODUCT_ID_COL,
     PD_DEFAULT_QUANTITY_COL |-> PD_DEFAULT_QUANTITY_COL,
     PD_DEFAULT_TIME_PERIOD_COL |-> PD_DEFAULT_TIME_PERIOD_COL,
     DEFAULT_NORMALIZATION_VAL |-> DEFAULT_NORMALIZATION_VAL]

\* the concurrent callers, none of them in a call
Threads == {1, 2}
IdleThreads ==
    [t \in Threads |-> [pc |-> "idle", fn |-> "none", outcome |-> Raise("none", "")]]
\* the local variables of sato_vartia_index and of bmw_index
NoLocals ==
    [matched_products |-> {}, todo |-> {}, s_0 |-> NoMap, s_t |-> NoMap,
     total_0 |-> 0, total_t |-> 0, phi |-> NoMap, divided |-> {},
     numerator |-> RZero, denominator |-> RZero]
NoFrames == [f \in Threads |-> NoLocals]

Init ==
    /\ called = "none"
    /\ prices_0 = NoMap
    /\ prices_t = NoMap
    /\ quantities_0 = NoMap
    /\ quantities_t = NoMap
    /\ normalization_value = DEFAULT_NORMALIZATION_VAL
    /\ df = NoFrame
    /\ base_period = 0
    /\ compared_period = 0
    /\ result = Raise("none", "")
    /\ module_constants = ModuleConstants
    /\ failed_before = FALSE
    /\ threads = IdleThreads
    /\ frames = NoFrames

Call_jevons_index ==
    /\ called = "none"
    /\ \E p0 \in PriceMaps, pt \in PriceMaps, k \in NormValues :
          /\ called' = "jevons_index"
          /\ prices_0' = p0
          /\ prices_t' = pt
          /\ normalization_value' = k
          /\ result' = jevons_index(p0, pt, k)
    /\ UNCHANGED <<quantities_0, quantities_t, dfArgs>>
    /\ UNCHANGED otherVars

Call_dutot_index ==
    /\ called = "none"
    /\ \E p0 \in PriceMaps, pt \in PriceMaps, k \in NormValues :
          /\ called' = "dutot_index"
          /\ prices_0' = p0
          /\ prices_t' = pt
          /\ normalization_value' = k
          /\ result' = dutot_index(p0, pt, k)
    /\ UNCHANGED <<quantities_0, quantities_t, dfArgs>>
    /\ UNCHANGED otherVars

Call_carli_index ==
    /\ called = "none"
    /\ \E p0 \in PriceMaps, pt \in PriceMaps, k \in NormValues :
          /\ called' = "carli_index"
          /\ prices_0' = p0
          /\ prices_t' = pt
          /\ normalization_value' = k
          /\ result' = carli_index(p0, pt, k)
    /\ UNCHANGED <<quantities_0, quantities_t, dfArgs>>
    /\ UNCHANGED otherVars

Call_bmw_index ==
    /\ called = "none"
    /\ \E p0 \in PriceMaps, pt \in PriceMaps, k \in NormValues :
          /\ called' = "bmw_index"
          /\ prices_0' = p0
          /\ prices_t' = pt
          /\ normalization_value' = k
          /\ result' = bmw_index(p0, pt, k)
    /\ UNCHANGED <<quantities_0, quantities_t, dfArgs>>
    /\ UNCHANGED otherVars

Call_laspeyres_index ==
    /\ called = "none"
    /\ \E p0 \in PriceMaps, pt \in PriceMaps, q \in QuantityMaps, k \in NormValues :
          /\ called' = "laspeyres_index"
          /\ prices_0' = p0
          /\ prices_t' = pt
          /\ quantities_0' = q
          /\ normalization_value' = k
          /\ result' = laspeyres_index(p0, pt, q, k)
    /\ UNCHANGED <<quantities_t, dfArgs>>
    /\ UNCHANGED otherVars

Call_paasche_index ==
    /\ called = "none"
    /\ \E p0 \in PriceMaps, pt \in PriceMaps, q \in QuantityMaps, k \in NormValues :
          /\ called' = "paasche_index"
          /\ prices_0' = p0
          /\ prices_t' = pt
          /\ quantities_t' = q
          /\ normalization_value' = k
          /\ result' = paasche_index(p0, pt, q, k)
    /\ UNCHANGED <<quantities_0, dfArgs>>
    /\ UNCHANGED otherVars

Call_fisher_index ==
    /\ called = "none"
    /\ \E p0 \in PriceMaps, pt \in PriceMaps,
          q0 \in QuantityMaps, qt \in QuantityMaps, k \in NormValues :
          /\ called' = "fisher_index"
          /\ prices_0' = p0
          /\ prices_t' = pt
          /\ quantities_0' = q0
          /\ quantities_t' = qt
          /\ normalization_value' = k
          /\ result' = fisher_index(p0, pt, q0, qt, k)
    /\ UNCHANGED dfArgs
    /\ UNCHANGED otherVars

Call_tornqvist_index ==
    /\ called = "none"
    /\ \E p0 \in PriceMaps, pt \in PriceMaps,
          q0 \in QuantityMaps, qt \in QuantityMaps, k \in NormValues :
          /\ called' = "tornqvist_index"
          /\ prices_0' = p0
          /\ prices_t' = pt
          /\ quantities_0' = q0
          /\ quantities_t' = qt
          /\ normalization_value' = k
          /\ result' = tornqvist_index(p0, pt, q0, qt, k)
    /\ UNCHANGED dfArgs
    /\ UNCHANGED otherVars

Call_walsh_index ==
    /\ called = "none"
    /\ \E p0 \in PriceMaps, pt \in PriceMaps,
          q0 \in QuantityMaps, qt \in QuantityMaps, k \in NormValues :
          /\ called' = "walsh_index"
          /\ prices_0' = p0
          /\ prices_t' = pt
          /\ quantities_0' = q0
          /\ quantities_t' = qt
          /\ normalization_value' = k
          /\ result' = walsh_index(p0, pt, q0, qt, k)
    /\ UNCHANGED dfArgs
    /\ UNCHANGED otherVars

Call_sato_vartia_index ==
    /\ called = "none"
    /\ \E p0 \in PriceMaps, pt \in PriceMaps,
          q0 \in QuantityMaps, qt \in QuantityMaps, k \in NormValues :
          /\ called' = "sato_vartia_index"
          /\ prices_0' = p0
          /\ prices_t' = pt
          /\ quantities_0' = q0
          /\ quantities_t' = qt
          /\ normalization_value' = k
          /\ result' = sato_vartia_index(p0, pt, q0, qt, k)
    /\ UNCHANGED dfArgs
    /\ UNCHANGED otherVars

Call_jevons_index_from_df ==
    /\ called = "none"
    /\ \E d \in DataFrames, b \in Periods, c \in Periods, k \in NormValues :
          /\ called' = "jevons_index_from_df"
          /\ df' = d
          /\ base_period' = b
          /\ compared_period' = c
          /\ normalization_value' = k
          /\ result' = jevons_index_from_df(d, b, c, k)
    /\ UNCHANGED dictArgs
    /\ UNCHANGED otherVars

Call_dutot_index_from_df ==
    /\ called = "none"
    /\ \E d \in DataFrames, b \in Periods, c \in Periods, k \in NormValues :
          /\ called' = "dutot_index_from_df"
          /\ df' = d
          /\ base_period' = b
          /\ compared_period' = c
          /\ normalization_value' = k
          /\ result' = dutot_index_from_df(d, b, c, k)
    /\ UNCHANGED dictArgs
    /\ UNCHANGED otherVars

Call_carli_index_from_df ==
    /\ called = "none"
    /\ \E d \in DataFrames, b \in Periods, c \in Periods, k \in NormValues :
          /\ called' = "carli_index_from_df"
          /\ df' = d
          /\ base_period' = b
          /\ compared_period' = c
          /\ normalization_value' = k
          /\ result' = carli_index_from_df(d, b, c, k)
    /\ UNCHANGED dictArgs
    /\ UNCHANGED otherVars

Call_bmw_index_from_df ==
    /\ called = "none"
    /\ \E d \in DataFrames, b \in Periods, c \in Periods, k \in NormValues :
          /\ called' = "bmw_index_from_df"
          /\ df' = d
          /\ base_period' = b
          /\ compared_period' = c
          /\ normalization_value' = k
          /\ result' = bmw_index_from_df(d, b, c, k)
    /\ UNCHANGED dictArgs
    /\ UNCHANGED otherVars

Call_laspeyres_index_from_df ==
    /\ called = "none"
    /\ \E d \in DataFrames, b \in Periods, c \in Periods, k \in NormValues :
          /\ called' = "laspeyres_index_from_df"
          /\ df' = d
          /\ base_period' = b
          /\ compared_period' = c
          /\ normalization_value' = k
          /\ result' = laspeyres_index_from_df(d, b, c, k)
    /\ UNCHANGED dictArgs
    /\ UNCHANGED otherVars

Call_paasche_index_from_df ==
    /\ called = "none"
    /\ \E d \in DataFrames, b \in Periods, c \in Periods, k \in NormValues :
          /\ called' = "paasche_index_from_df"
          /\ df' = d
          /\ base_period' = b
          /\ compared_period' = c
          /\ normalization_value' = k
          /\ result' = paasche_index_from_df(d, b, c, k)
    /\ UNCHANGED dictArgs
    /\ UNCHANGED otherVars

Call_fisher_index_from_df ==
    /\ called = "none"
    /\ \E d \in DataFrames, b \in Periods, c \in Periods, k \in NormValues :
          /\ called' = "fisher_index_from_df"
          /\ df' = d
          /\ base_period' = b
          /\ compared_period' = c
          /\ normalization_value' = k
          /\ result' = fisher_index_from_df(d, b, c, k)
    /\ UNCHANGED dictArgs
    /\ UNCHANGED otherVars

Call_tornqvist_index_from_df ==
    /\ called = "none"
    /\ \E d \in DataFrames, b \in Periods, c \in Periods, k \in NormValues :
          /\ called' = "tornqvist_index_from_df"
          /\ df' = d
          /\ base_period' = b
          /\ compared_period' = c
          /\ normalization_value' = k
          /\ result' = tornqvist_index_from_df(d, b, c, k)
    /\ UNCHANGED dictArgs
    /\ UNCHANGED otherVars

Call_walsh_index_from_df ==
    /\ called = "none"
    /\ \E d \in DataFrames, b \in Periods, c \in Periods, k \in NormValues :
          /\ called' = "walsh_index_from_df"
          /\ df' = d
          /\ base_period' = b
          /\ compared_period' = c
          /\ normalization_value' = k
          /\ result' = walsh_index_from_df(d, b, c, k)
    /\ UNCHANGED dictArgs
    /\ UNCHANGED otherVars

Call_sato_vartia_index_from_df ==
    /\ called = "none"
    /\ \E d \in DataFrames, b \in Periods, c \in Periods, k \in NormValues :
          /\ called' = "sato_vartia_index_from_df"
          /\ df' = d
          /\ base_period' = b
          /\ compared_period' = c
          /\ normalization_value' = k
          /\ result' = sato_vartia_index_from_df(d, b, c, k)
    /\ UNCHANGED dictArgs
    /\ UNCHANGED otherVars

\* the caller drops the arguments and the result of the call
Discard ==
    /\ called # "none"
    /\ called' = "none"
    /\ prices_0' = NoMap
    /\ prices_t' = NoMap
    /\ quantities_0' = NoMap
    /\ quantities_t' = NoMap
    /\ normalization_value' = DEFAULT_NORMALIZATION_VAL
    /\ df' = NoFrame
    /\ base_period' = 0
    /\ compared_period' = 0
    /\ result' = Raise("none", "")
    /\ failed_before' = FALSE
    /\ UNCHANGED <<module_constants, threads, frames>>

\* calls of the dictionary formulas
Next ==
    \/ Call_jevons_index
    \/ Call_dutot_index
    \/ Call_carli_index
    \/ Call_bmw_index
    \/ Call_laspeyres_index
    \/ Call_paasche_index
    \/ Call_fisher_index
    \/ Call_tornqvist_index
    \/ Call_walsh_index
    \/ Call_sato_vartia_index
    \/ Discard

Spec == Init /\ [][Next]_vars

\* calls of the DataFrame adapters
NextDf ==
    \/ Call_jevons_index_from_df
    \/ Call_dutot_index_from_df
    \/ Call_carli_index_from_df
    \/ Call_bmw_index_from_df
    \/ Call_laspeyres_index_from_df
    \/ Call_paasche_index_from_df
    \/ Call_fisher_index_from_df
    \/ Call_tornqvist_index_from_df
    \/ Call_walsh_index_from_df
    \/ Call_sato_vartia_index_from_df
    \/ Discard

SpecDf == Init /\ [][NextDf]_vars
\* calls of either kind
SpecAll == Init /\ [][Next \/ NextDf]_vars

(***************************************************************************)
(* What the properties below speak about                                   *)
(***************************************************************************)
UnweightedNames == {"jevons_index", "dutot_index", "carli_index", "bmw_index"}
BothQuantityNames ==
    {"fisher_index", "tornqvist_index", "walsh_index", "sato_vartia_index"}
WeightedNames == {"laspeyres_index", "paasche_index"} \cup BothQuantityNames
DictNames == UnweightedNames \cup WeightedNames
AdapterOf(name) ==
    CASE name = "jevons_index" -> "jevons_index_from_df"
      [] name = "dutot_index" -> "dutot_index_from_df"
      [] name = "carli_index" -> "carli_index_from_df"
      [] name = "bmw_index" -> "bmw_index_from_df"
      [] name = "laspeyres_index" -> "laspeyres_index_from_df"
      [] name = "paasche_index" -> "paasche_index_from_df"
      [] name = "fisher_index" -> "fisher_index_from_df"
      [] name = "tornqvist_index" -> "tornqvist_index_from_df"
      [] name = "walsh_index" -> "walsh_index_from_df"
      [] name = "sato_vartia_index" -> "sato_vartia_index_from_df"
AdapterNames == {AdapterOf(name) : name \in DictNames}
FormulaOf(adapter) == CHOOSE name \in DictNames : AdapterOf(name) = adapter

\* the outcome of the dictionary formula `name` on the given arguments
DictCall(name, p0, pt, q0, qt, k) ==
    CASE name = "jevons_index" -> jevons_index(p0, pt, k)
      [] name = "dutot_index" -> dutot_index(p0, pt, k)
      [] name = "carli_index" -> carli_index(p0, pt, k)
      [] name = "bmw_index" -> bmw_index(p0, pt, k)
      [] name = "laspeyres_index" -> laspeyres_index(p0, pt, q0, k)
      [] name = "paasche_index" -> paasche_index(p0, pt, qt, k)
      [] name = "fisher_index" -> fisher_index(p0, pt, q0, qt, k)
      [] name = "tornqvist_index" -> tornqvist_index(p0, pt, q0, qt, k)
      [] name = "walsh_index" -> walsh_index(p0, pt, q0, qt, k)
      [] name = "sato_vartia_index" -> sato_vartia_index(p0, pt, q0, qt, k)

\* the outcome of the adapter `name` on the given arguments
DfCall(name, d, b, c, k) ==
    CASE name = "jevons_index_from_df" -> jevons_index_from_df(d, b, c, k)
      [] name = "dutot_index_from_df" -> dutot_index_from_df(d, b, c, k)
      [] name = "carli_index_from_df" -> carli_index_from_df(d, b, c, k)
      [] name = "bmw_index_from_df" -> bmw_index_from_df(d, b, c, k)
      [] name = "laspeyres_index_from_df" -> laspeyres_index_from_df(d, b, c, k)
      [] name = "paasche_index_from_df" -> paasche_index_from_df(d, b, c, k)
      [] name = "fisher_index_from_df" -> fisher_index_from_df(d, b, c, k)
      [] name = "tornqvist_index_from_df" -> tornqvist_index_from_df(d, b, c, k)
      [] name = "walsh_index_from_df" -> walsh_index_from_df(d, b, c, k)
      [] name = "sato_vartia_index_from_df" -> sato_vartia_index_from_df(d, b, c, k)

\* the columns an adapter reads
RequiredColumns(adapter) ==
    IF FormulaOf(adapter) \in UnweightedNames THEN UnweightedColumns
    ELSE WeightedColumns

\* the key sets of the maps a dictionary formula takes
RequiredKeySets(name, p0, pt, q0, qt) ==
    {keys(p0), keys(pt)}
        \cup (IF name \in WeightedNames \ {"paasche_index"} THEN {keys(q0)} ELSE {})
        \cup (IF name \in WeightedNames \ {"laspeyres_index"} THEN {keys(qt)} ELSE {})

\* the products present in every map the formula takes
MatchedSet(name, p0, pt, q0, qt) ==
    {i \in keys(p0) : \A K \in RequiredKeySets(name, p0, pt, q0, qt) : i \in K}

IsEmptyBasket(out) == out.kind = "ValueError" /\ out.msg \in {NoMatched, NoMatchedDf}
IsSchemaError(out) == out.kind = "AttributeError" /\ out.msg = MissingColumns

\* the same numeric value, or both no value and the same exception class
SameResult(a, b) ==
    /\ a.kind = b.kind
    /\ a.kind = "value" => RealEq(a.val, b.val)

(***************************************************************************)
(* C1: on a table with all four columns (one row at most per product and   *)
(* period, positive prices and quantities), every adapter returns the      *)
(* value the dictionary formula returns on the maps built from the rows of *)
(* the base period and the rows of the compared period, with the same      *)
(* normalization value.                                                    *)
(***************************************************************************)
C1_AdapterEqualsFormula ==
    (called \in AdapterNames /\ df.columns = AllColumns) =>
        SameResult(result,
                   DictCall(FormulaOf(called),
                            Series(df, base_period, PD_DEFAULT_PRICE_COL),
                            Series(df, compared_period, PD_DEFAULT_PRICE_COL),
                            Series(df, base_period, PD_DEFAULT_QUANTITY_COL),
                            Series(df, compared_period, PD_DEFAULT_QUANTITY_COL),
                            normalization_value))

(***************************************************************************)
(* C2: every adapter called on a table that lacks one of the columns it    *)
(* requires fails with the schema error (AttributeError).                  *)
(***************************************************************************)
C2_MissingColumnIsSchemaError ==
    (called \in AdapterNames /\ ~(RequiredColumns(called) \subseteq df.columns)) =>
        IsSchemaError(result)

(***************************************************************************)
(* C3: a dictionary formula raises the empty-basket error whenever no      *)
(* product is present in all the maps the formula takes.                   *)
(***************************************************************************)
C3_EmptyIntersectionRaises ==
    (called \in DictNames
        /\ MatchedSet(called, prices_0, prices_t, quantities_0, quantities_t) = {}) =>
        IsEmptyBasket(result)

(***************************************************************************)
(* C4: when the base price map and the compared price map share no key,    *)
(* each of the ten dictionary formulas raises ValueError with the          *)
(* empty-basket message, whatever the quantity maps hold.                  *)
(***************************************************************************)
C4_DisjointPricesRaise ==
    (called \in DictNames /\ keys(prices_0) \cap keys(prices_t) = {}) =>
        result = Raise("ValueError", NoMatched)

C4_Witness ==
    /\ called = "fisher_index"
    /\ keys(prices_0) = {"a"} /\ keys(prices_t) = {"b"}
    /\ keys(quantities_0) = Products /\ keys(quantities_t) = Products
    /\ result = Raise("ValueError", NoMatched)

\* the products with a row in the given period
ProductsIn(d, period) ==
    {r[PD_DEFAULT_PRODUCT_ID_COL] :
        r \in {x \in d.rows : x[PD_DEFAULT_TIME_PERIOD_COL] = period}}

(***************************************************************************)
(* C5: an adapter called on a table that has every column it reads, in     *)
(* which no product has a row in both the base and the compared period,    *)
(* raises ValueError with an empty-basket message: it neither raises the   *)
(* schema error nor returns a number.                                      *)
(***************************************************************************)
C5_NoMatchedRowsRaise ==
    (called \in AdapterNames
        /\ RequiredColumns(called) \subseteq df.columns
        /\ ProductsIn(df, base_period) \cap ProductsIn(df, compared_period) = {}) =>
        IsEmptyBasket(result)

C5_Witness ==
    /\ called = "sato_vartia_index_from_df"
    /\ df.columns = AllColumns
    /\ ProductsIn(df, base_period) = {"a"}
    /\ ProductsIn(df, compared_period) = {"b"}
    /\ IsEmptyBasket(result)

\* the map with product i dropped
Without(m, i) == [j \in keys(m) \ {i} |-> m[j]]
\* the map with product i set to v
With(m, i, v) == [j \in keys(m) \cup {i} |-> IF j = i THEN v ELSE m[j]]

(***************************************************************************)
(* C6: a product missing from one of the maps a weighted formula takes     *)
(* contributes nothing: dropping that product from all the maps leaves the *)
(* outcome unchanged (for fisher_index the maps are all four).             *)
(***************************************************************************)
C6_MissingProductIgnored ==
    called \in WeightedNames =>
        \A i \in Products :
            i \notin MatchedSet(called, prices_0, prices_t, quantities_0, quantities_t) =>
                SameOutcome(result,
                            DictCall(called, Without(prices_0, i), Without(prices_t, i),
                                     Without(quantities_0, i), Without(quantities_t, i),
                                     normalization_value))

(***************************************************************************)
(* C7: adding to exactly one of the two price maps a product that is a key *)
(* of neither leaves the outcome of each of the ten dictionary formulas    *)
(* unchanged, the returned value and the empty-basket error alike.         *)
(***************************************************************************)
C7_UnmatchedPriceIgnored ==
    called \in DictNames =>
        \A i \in Products \ (keys(prices_0) \cup keys(prices_t)) : \A v \in Prices :
            /\ SameOutcome(result,
                           DictCall(called, With(prices_0, i, v), prices_t,
                                    quantities_0, quantities_t, normalization_value))
            /\ SameOutcome(result,
                           DictCall(called, prices_0, With(prices_t, i, v),
                                    quantities_0, quantities_t, normalization_value))

C7_Witness ==
    /\ called = "tornqvist_index"
    /\ keys(prices_0) = {"a"} /\ keys(prices_t) = {"a"}
    /\ keys(quantities_0) = Products /\ keys(quantities_t) = Products
    /\ prices_t["a"] # prices_0["a"]
    /\ result.kind = "value"

\* prices_t[i] == prices_0[i] for every product priced in both periods
NoPriceChange(p0, pt) == \A i \in keys(p0) \cap keys(pt) : pt[i] = p0[i]

(***************************************************************************)
(* C8: when the matched set is not empty and no matched product changes    *)
(* its price, each of the ten dictionary formulas returns exactly the      *)
(* normalization value (1.0 times normalization_value).                    *)
(***************************************************************************)
C8_IdentityAtNoChange ==
    (called \in DictNames
        /\ MatchedSet(called, prices_0, prices_t, quantities_0, quantities_t) # {}
        /\ NoPriceChange(prices_0, prices_t)) =>
        /\ result.kind = "value"
        /\ RealEq(result.val, RealOfQ(QInt(normalization_value)))

(***************************************************************************)
(* C9: a dictionary formula other than fisher_index that returns a value   *)
(* for normalization value k returns k times the value it returns on the   *)
(* same maps for normalization value 1.                                    *)
(***************************************************************************)
C9_NormalizationLinear ==
    (called \in DictNames \ {"fisher_index"} /\ result.kind = "value") =>
        LET unit == DictCall(called, prices_0, prices_t, quantities_0, quantities_t, 1)
        IN  /\ unit.kind = "value"
            /\ RealEq(result.val, RealScale(unit.val, normalization_value))

C9_Witness ==
    /\ called = "sato_vartia_index"
    /\ normalization_value = 2
    /\ result.kind = "value"
    /\ ~RealEq(result.val, RealOfQ(QInt(normalization_value)))

\* what the Fisher call in the current state returns for normalization value k,
\* whichever of fisher_index and fisher_index_from_df was called
FisherWith(k) ==
    IF called = "fisher_index"
    THEN fisher_index(prices_0, prices_t, quantities_0, quantities_t, k)
    ELSE fisher_index_from_df(df, base_period, compared_period, k)
FisherReturned ==
    called \in {"fisher_index", "fisher_index_from_df"} /\ result.kind = "value"

(***************************************************************************)
(* C10 as stated: fisher_index and fisher_index_from_df called with a      *)
(* normalization value k other than the default (and other than 1) return  *)
(* a value that is not k times the value returned for normalization 1.     *)
(***************************************************************************)
C10_FisherNotLinear ==
    (FisherReturned /\ normalization_value \notin {1, DEFAULT_NORMALIZATION_VAL}) =>
        ~RealEq(result.val, RealScale(FisherWith(1).val, normalization_value))

(***************************************************************************)
(* C10 amended: the Fisher functions return |k| times the value they       *)
(* return for normalization 1; that is k times that value when k > 0, and  *)
(* differs from it when k < 0.                                             *)
(***************************************************************************)
C10_FisherAbsLinear ==
    FisherReturned =>
        LET k == normalization_value
            unit == FisherWith(1)
        IN  /\ unit.kind = "value"
            /\ RealEq(result.val, RealScale(unit.val, Abs(k)))
            /\ k < 0 => ~RealEq(result.val, RealScale(unit.val, k))

C10_Witness ==
    /\ called = "fisher_index_from_df"
    /\ normalization_value = 2
    /\ result.kind = "value"
    /\ ~RealEq(result.val, RealOfQ(QInt(normalization_value)))

(***************************************************************************)
(* The scenario of the test suite: three products, the four maps of        *)
(* setUpClass (or the part of each map a caller passes), the default       *)
(* normalization value.                                                    *)
(***************************************************************************)
ScenarioProducts == {"a", "b", "c"}
scenario_prices_0 == [i \in ScenarioProducts |->
    IF i = "a" THEN 100 ELSE IF i = "b" THEN 200 ELSE 300]
scenario_prices_t == [i \in ScenarioProducts |->
    IF i = "a" THEN 110 ELSE IF i = "b" THEN 190 ELSE 310]
scenario_quantities_0 == [i \in ScenarioProducts |->
    IF i = "a" THEN 10 ELSE IF i = "b" THEN 20 ELSE 30]
scenario_quantities_t == [i \in ScenarioProducts |->
    IF i = "a" THEN 15 ELSE IF i = "b" THEN 25 ELSE 35]
\* the map m restricted to the products S
SubMap(m, S) == [i \in S |-> m[i]]
ScenarioSubsets == SUBSET ScenarioProducts

Scenario_laspeyres_index ==
    /\ called = "none"
    /\ \E S0 \in ScenarioSubsets, St \in ScenarioSubsets, Q0 \in ScenarioSubsets :
          /\ called' = "laspeyres_index"
          /\ prices_0' = SubMap(scenario_prices_0, S0)
          /\ prices_t' = SubMap(scenario_prices_t, St)
          /\ quantities_0' = SubMap(scenario_quantities_0, Q0)
          /\ normalization_value' = DEFAULT_NORMALIZATION_VAL
          /\ result' = laspeyres_index(prices_0', prices_t', quantities_0',
                                       normalization_value')
    /\ UNCHANGED <<quantities_t, dfArgs>>
    /\ UNCHANGED otherVars

Scenario_paasche_index ==
    /\ called = "none"
    /\ \E S0 \in ScenarioSubsets, St \in ScenarioSubsets, Qt \in ScenarioSubsets :
          /\ called' = "paasche_index"
          /\ prices_0' = SubMap(scenario_prices_0, S0)
          /\ prices_t' = SubMap(scenario_prices_t, St)
          /\ quantities_t' = SubMap(scenario_quantities_t, Qt)
          /\ normalization_value' = DEFAULT_NORMALIZATION_VAL
          /\ result' = paasche_index(prices_0', prices_t', quantities_t',
                                     normalization_value')
    /\ UNCHANGED <<quantities_0, dfArgs>>
    /\ UNCHANGED otherVars

Scenario_fisher_index ==
    /\ called = "none"
    /\ \E S0 \in ScenarioSubsets, St \in ScenarioSubsets,
          Q0 \in ScenarioSubsets, Qt \in ScenarioSubsets :
          /\ called' = "fisher_index"
          /\ prices_0' = SubMap(scenario_prices_0, S0)
          /\ prices_t' = SubMap(scenario_prices_t, St)
          /\ quantities_0' = SubMap(scenario_quantities_0, Q0)
          /\ quantities_t' = SubMap(scenario_quantities_t, Qt)
          /\ normalization_value' = DEFAULT_NORMALIZATION_VAL
          /\ result' = fisher_index(prices_0', prices_t', quantities_0',
                                    quantities_t', normalization_value')
    /\ UNCHANGED dfArgs
    /\ UNCHANGED otherVars

NextScenario ==
    \/ Scenario_laspeyres_index
    \/ Scenario_paasche_index
    \/ Scenario_fisher_index
    \/ Discard

SpecScenario == Init /\ [][NextScenario]_vars

\* the product of two Reals without an exp factor
RealMul(x, y) ==
    [num |-> RMul(x.num, y.num), den |-> RMul(x.den, y.den),
     xn |-> RZero, xd |-> RZero]

ScenarioPrices == prices_0 = scenario_prices_0 /\ prices_t = scenario_prices_t
ScenarioLaspeyres == RealOfQ(Q(14200 * 100, 14000))
ScenarioPaasche == RealOfQ(Q(17250 * 100, 17000))

(***************************************************************************)
(* C11: on the scenario's maps with normalization 100, laspeyres_index     *)
(* returns 14200/14000 * 100, paasche_index returns 17250/17000 * 100, and *)
(* fisher_index returns the positive number whose square is the product of *)
(* the two, which lies between 101.44 and 101.45.                          *)
(***************************************************************************)
C11_ConcreteScenario ==
    /\ (called = "laspeyres_index" /\ ScenarioPrices
            /\ quantities_0 = scenario_quantities_0) =>
        (result.kind = "value" /\ RealEq(result.val, ScenarioLaspeyres))
    /\ (called = "paasche_index" /\ ScenarioPrices
            /\ quantities_t = scenario_quantities_t) =>
        (result.kind = "value" /\ RealEq(result.val, ScenarioPaasche))
    /\ (called = "fisher_index" /\ ScenarioPrices
            /\ quantities_0 = scenario_quantities_0
            /\ quantities_t = scenario_quantities_t) =>
        /\ result.kind = "value"
        /\ RealEq(RealMul(result.val, result.val),
                  RealMul(ScenarioLaspeyres, ScenarioPaasche))
        /\ LET square == AsQ(RealMul(result.val, result.val))
           IN  /\ ~QLess(square, Q(10144 * 10144, 10000))
               /\ QLess(square, Q(10145 * 10145, 10000))
        /\ \A key \in DOMAIN result.val.num : QLess(QZero, result.val.num[key])

C11_Witness ==
    /\ called = "fisher_index"
    /\ ScenarioPrices
    /\ quantities_0 = scenario_quantities_0
    /\ quantities_t = scenario_quantities_t
    /\ result.kind = "value"

\* the closed forms of the specification, over a matched set M
RECURSIVE QProdOver(_, _)
QProdOver(f, S) ==
    IF S = {} THEN QOne
    ELSE LET x == CHOOSE y \in S : TRUE
         IN  QMul(f[x], QProdOver(f, S \ {x}))
RECURSIVE RealPowInt(_, _)
RealPowInt(x, n) == IF n = 0 THEN RealOfQ(QOne) ELSE RealMul(x, RealPowInt(x, n - 1))
SumOfProducts(u, v, M) == QSumOver([i \in M |-> QInt(u[i] * v[i])], M)
ClosedDutot(p0, pt, M) ==
    QDiv(QSumOver([i \in M |-> QInt(pt[i])], M), QSumOver([i \in M |-> QInt(p0[i])], M))
ClosedCarli(p0, pt, M) ==
    QDiv(QSumOver([i \in M |-> Q(pt[i], p0[i])], M), QInt(Cardinality(M)))
ClosedWeighted(p0, pt, q, M) == QDiv(SumOfProducts(q, pt, M), SumOfProducts(q, p0, M))
Returned(x) == result.kind = "value" /\ RealEq(result.val, x)
Times(k, x) == RealOfQ(QMul(QInt(k), x))

(***************************************************************************)
(* C12: with a non-empty matched set M (the products that are keys of all  *)
(* the maps the formula takes), dutot_index, carli_index, laspeyres_index  *)
(* and paasche_index return normalization_value times sum(pt)/sum(p0),     *)
(* (1/|M|) sum(pt/p0), sum(q0 pt)/sum(q0 p0) and sum(qt pt)/sum(qt p0),    *)
(* every sum over M only, and the |M|-th power of what jevons_index        *)
(* returns is normalization_value^|M| times the product over M of pt/p0.   *)
(***************************************************************************)
C12_ClosedForms ==
    LET M == MatchedSet(called, prices_0, prices_t, quantities_0, quantities_t)
        k == normalization_value
    IN  (called \in DictNames /\ M # {}) =>
           /\ called = "dutot_index" =>
                 Returned(Times(k, ClosedDutot(prices_0, prices_t, M)))
           /\ called = "carli_index" =>
                 Returned(Times(k, ClosedCarli(prices_0, prices_t, M)))
           /\ called = "laspeyres_index" =>
                 Returned(Times(k, ClosedWeighted(prices_0, prices_t, quantities_0, M)))
           /\ called = "paasche_index" =>
                 Returned(Times(k, ClosedWeighted(prices_0, prices_t, quantities_t, M)))
           /\ called = "jevons_index" =>
                 /\ result.kind = "value"
                 /\ RealEq(RealPowInt(result.val, Cardinality(M)),
                           Times(1, QMul(QPowInt(QInt(k), Cardinality(M)),
                                         QProdOver([i \in M |-> Q(prices_t[i], prices_0[i])], M))))

C12_Witness ==
    /\ called = "carli_index"
    /\ keys(prices_0) = Products /\ keys(prices_t) = {"a"}
    /\ prices_t["a"] # prices_0["a"]
    /\ result.kind = "value"

\* the column of the table as a map, the empty map when the table lacks it
SeriesOrNone(d, period, col) ==
    IF {col, PD_DEFAULT_PRODUCT_ID_COL, PD_DEFAULT_TIME_PERIOD_COL} \subseteq d.columns
    THEN Series(d, period, col)
    ELSE NoMap
\* the maps the call in the current state computes with
ArgPrices0 ==
    IF called \in DictNames THEN prices_0
    ELSE SeriesOrNone(df, base_period, PD_DEFAULT_PRICE_COL)
ArgPricesT ==
    IF called \in DictNames THEN prices_t
    ELSE SeriesOrNone(df, compared_period, PD_DEFAULT_PRICE_COL)
ArgQuantities0 ==
    IF called \in DictNames THEN quantities_0
    ELSE SeriesOrNone(df, base_period, PD_DEFAULT_QUANTITY_COL)
ArgQuantitiesT ==
    IF called \in DictNames THEN quantities_t
    ELSE SeriesOrNone(df, compared_period, PD_DEFAULT_QUANTITY_COL)
CalledFormula == IF called \in AdapterNames THEN FormulaOf(called) ELSE called
\* the matched set of the call in the current state
CallMatched ==
    IF called \in DictNames
           \/ (called \in AdapterNames /\ RequiredColumns(called) \subseteq df.columns)
    THEN MatchedSet(CalledFormula, ArgPrices0, ArgPricesT, ArgQuantities0, ArgQuantitiesT)
    ELSE {}

\* a sum of radicals with positive coefficients only
RPositive(a) == a # RZero /\ \A key \in DOMAIN a : QLess(QZero, a[key])
\* a Real that is positive because its numerator and its denominator are
RealPositive(x) == RPositive(x.num) /\ RPositive(x.den)

(***************************************************************************)
(* C13: a call of a formula or of an adapter with a non-empty matched set  *)
(* and a positive normalization value (prices and quantities are positive  *)
(* in every call) returns a value, and the value is a positive number.     *)
(***************************************************************************)
C13_PositiveResult ==
    (CallMatched # {} /\ normalization_value > 0) =>
        (result.kind = "value" /\ RealPositive(result.val))

BmwCalled == called \in {"bmw_index", "bmw_index_from_df"}
\* the BMW denominator: the sum over M of the weights sqrt(p_0 / p_t)
BmwWeightSum(p0, pt, M) == RSumOver([i \in M |-> Sqrt(Q(p0[i], pt[i]))], M)
BmwUnchanged == BmwCalled /\ CallMatched # {} /\ NoPriceChange(ArgPrices0, ArgPricesT)

(***************************************************************************)
(* C14 as stated: when no matched product changes its price, bmw_index and *)
(* bmw_index_from_df raise ValueError with the message 'Denominator is     *)
(* zero, cannot compute BMW index.' and return no value.                   *)
(***************************************************************************)
C14_BmwRaisesWhenUnchanged ==
    BmwUnchanged => result = Raise("ValueError", BmwZero)

(***************************************************************************)
(* C14 amended: when no matched product changes its price every BMW weight *)
(* is 1, the denominator is the number of matched products, the check does *)
(* not fire, and bmw_index and bmw_index_from_df return the normalization  *)
(* value.                                                                  *)
(***************************************************************************)
C14_BmwReturnsNormalization ==
    BmwUnchanged =>
        /\ BmwWeightSum(ArgPrices0, ArgPricesT, CallMatched)
              = ROfQ(QInt(Cardinality(CallMatched)))
        /\ result.kind = "value"
        /\ RealEq(result.val, RealOfQ(QInt(normalization_value)))

C14_Witness ==
    /\ called = "bmw_index_from_df"
    /\ base_period # compared_period
    /\ CallMatched = Products
    /\ NoPriceChange(ArgPrices0, ArgPricesT)
    /\ result.kind = "value"

SatoVartiaCalled == called \in {"sato_vartia_index", "sato_vartia_index_from_df"}
\* the expenditure share of product i, the total taken over M
Share(p, q, M, i) == Q(p[i] * q[i], SumOver([j \in M |-> p[j] * q[j]], M))
\* the base share and the comparison share of product i in the current call
Share0(i) == Share(ArgPrices0, ArgQuantities0, CallMatched, i)
ShareT(i) == Share(ArgPricesT, ArgQuantitiesT, CallMatched, i)

(***************************************************************************)
(* C15: a call of sato_vartia_index or sato_vartia_index_from_df in which  *)
(* some matched product has the same expenditure share in both periods     *)
(* returns no index: it raises an arithmetic error (or yields NaN), and    *)
(* the error is not a dedicated degenerate-weight ValueError.              *)
(***************************************************************************)
C15_SatoVartiaDegenerateFails ==
    (SatoVartiaCalled /\ \E i \in CallMatched : Share0(i) = ShareT(i)) =>
        result.kind \notin {"value", "ValueError"}

(***************************************************************************)
(* A caller that holds its data over several calls.  The maps and the      *)
(* table are passed by reference, so an assignment into them by a function *)
(* would show in the caller's variables; the functions make none, and none *)
(* to a module-level name.                                                 *)
(***************************************************************************)
SeqMaps == Maps({1, 2})
SeqUnitMaps == Maps({1})
SeqNormValues == {1, 2}
\* tables with base price 1, compared price 1 or 2, quantity 1
SeqFrames ==
    {d \in DataFrames :
        \A r \in d.rows :
            /\ PD_DEFAULT_QUANTITY_COL \in d.columns => r[PD_DEFAULT_QUANTITY_COL] = 1
            /\ PD_DEFAULT_PRICE_COL \in d.columns => r[PD_DEFAULT_PRICE_COL] \in {1, 2}
            /\ {PD_DEFAULT_PRICE_COL, PD_DEFAULT_TIME_PERIOD_COL} \subseteq d.columns =>
                  (r[PD_DEFAULT_TIME_PERIOD_COL] = 0 => r[PD_DEFAULT_PRICE_COL] = 1)}

\* the caller builds four maps and picks a normalization value
Hold_maps ==
    /\ called = "none"
    /\ \E p0 \in SeqUnitMaps, pt \in SeqMaps, q0 \in SeqUnitMaps, qt \in SeqUnitMaps,
          k \in SeqNormValues :
          /\ prices_0' = p0
          /\ prices_t' = pt
          /\ quantities_0' = q0
          /\ quantities_t' = qt
          /\ normalization_value' = k
    /\ called' = "maps"
    /\ UNCHANGED <<dfArgs, result, otherVars>>

\* the caller builds a table and picks a normalization value
Hold_table ==
    /\ called = "none"
    /\ \E d \in SeqFrames, k \in SeqNormValues :
          /\ df' = d
          /\ base_period' = 0
          /\ compared_period' = 1
          /\ normalization_value' = k
    /\ called' = "table"
    /\ UNCHANGED <<dictArgs, result, otherVars>>

\* variant of Call_formula in which the function deletes the unmatched
\* products from the caller's prices_0: C16 must reject it
Call_formula_pruning ==
    /\ called \in DictNames \cup {"maps"}
    /\ \E name \in DictNames :
          /\ called' = name
          /\ result' = DictCall(name, prices_0, prices_t, quantities_0,
                                quantities_t, normalization_value)
    /\ prices_0' = SubMap(prices_0, keys(prices_0) \cap keys(prices_t))
    /\ failed_before' = (failed_before \/ result.kind \notin {"none", "value"})
    /\ UNCHANGED <<prices_t, quantities_0, quantities_t, normalization_value,
                   dfArgs, module_constants, threads, frames>>

\* the caller calls a dictionary formula on the maps it holds
Call_formula ==
    /\ called \in DictNames \cup {"maps"}
    /\ \E name \in DictNames :
          /\ called' = name
          /\ result' = DictCall(name, prices_0, prices_t, quantities_0,
                                quantities_t, normalization_value)
    /\ failed_before' = (failed_before \/ result.kind \notin {"none", "value"})
    /\ UNCHANGED <<dictArgs, normalization_value, dfArgs, module_constants, threads, frames>>

\* the caller calls an adapter on the table it holds
Call_adapter ==
    /\ called \in AdapterNames \cup {"table"}
    /\ \E name \in AdapterNames :
          /\ called' = name
          /\ result' = DfCall(name, df, base_period, compared_period,
                              normalization_value)
    /\ failed_before' = (failed_before \/ result.kind \notin {"none", "value"})
    /\ UNCHANGED <<dictArgs, normalization_value, dfArgs, module_constants, threads, frames>>

NextSeq ==
    \/ Hold_maps
    \/ Hold_table
    \/ Call_formula
    \/ Call_adapter
    \/ Discard

SpecSeq == Init /\ [][NextSeq]_vars

\* the outcome of the function `name` on the data the caller holds
OutcomeAlone(name) ==
    IF name \in DictNames
    THEN DictCall(name, prices_0, prices_t, quantities_0, quantities_t,
                  normalization_value)
    ELSE DfCall(name, df, base_period, compared_period, normalization_value)

FrameShared(t) == CHOOSE f \in Threads : \A g \in Threads : f <= g

\* the frame of the call that caller t is in
FrameOf(t) == t

SharedPrices0 == {m \in SeqUnitMaps : m # NoMap}
SharedPricesT == {m \in SeqMaps : m # NoMap}
AllOnes == [i \in Products |-> 1]

\* the callers are handed the same four maps and normalization value
Share_maps ==
    /\ called = "none"
    /\ \E p0 \in SharedPrices0, pt \in SharedPricesT, qt \in SeqUnitMaps,
          k \in SeqNormValues :
          /\ prices_0' = p0
          /\ prices_t' = pt
          /\ quantities_0' = AllOnes
          /\ quantities_t' = qt
          /\ normalization_value' = k
    /\ called' = "shared"
    /\ UNCHANGED <<dfArgs, result, otherVars>>

Finish(t, fn, out) ==
    threads' = [threads EXCEPT ![t] = [pc |-> "done", fn |-> fn, outcome |-> out]]
Goto(t, fn, pc) ==
    threads' = [threads EXCEPT ![t] = [pc |-> pc, fn |-> fn, outcome |-> Raise("none", "")]]
sharedVars == <<called, dictArgs, normalization_value, dfArgs, result,
                module_constants, failed_before>>

\* sato_vartia_index up to the first loop
Enter_sato_vartia_index(t) ==
    /\ called = "shared"
    /\ threads[t].pc = "idle"
    /\ LET matched_products ==
               keys(prices_0) \cap keys(prices_t)
                   \cap keys(quantities_0) \cap keys(quantities_t)
           s_0 == [i \in matched_products |-> prices_0[i] * quantities_0[i]]
           s_t == [i \in matched_products |-> prices_t[i] * quantities_t[i]]
       IN  IF matched_products = {}
           THEN /\ Finish(t, "sato_vartia_index", Raise("ValueError", NoMatched))
                /\ UNCHANGED frames
           ELSE /\ Goto(t, "sato_vartia_index", "first_loop")
                /\ frames' = [frames EXCEPT ![FrameOf(t)] =
                       [NoLocals EXCEPT
                           !.matched_products = matched_products,
                           !.todo = matched_products,
                           !.s_0 = s_0, !.s_t = s_t,
                           !.total_0 = SumOver(s_0, matched_products),
                           !.total_t = SumOver(s_t, matched_products)]]
    /\ UNCHANGED sharedVars

\* one iteration of the first loop: phi[product_id] = ...; denominator += ...
SatoVartia_first_loop(t) ==
    /\ threads[t].pc = "first_loop"
    /\ LET fr == frames[FrameOf(t)]
       IN  \E i \in fr.todo :
             LET s0 == Q(fr.s_0[i], fr.total_0)
                 st == Q(fr.s_t[i], fr.total_t)
                 dlog == LFSub(Log(st), Log(s0))
                 phi_i == RScale(InvLF(dlog), QSub(st, s0))
                 rest == fr.todo \ {i}
             IN  IF i \notin DOMAIN fr.s_0
                 THEN /\ Finish(t, "sato_vartia_index", Raise("KeyError", i))
                      /\ UNCHANGED frames
                 ELSE IF dlog = LFZero
                 THEN /\ Finish(t, "sato_vartia_index",
                                Raise("ZeroDivisionError", DivByZero))
                      /\ UNCHANGED frames
                 ELSE /\ Goto(t, "sato_vartia_index",
                              IF rest = {} THEN "second_loop" ELSE "first_loop")
                      /\ frames' = [frames EXCEPT ![FrameOf(t)] =
                             [fr EXCEPT
                                 !.phi = With(fr.phi, i, phi_i),
                                 !.denominator = RAdd(fr.denominator, phi_i),
                                 !.todo = IF rest = {} THEN fr.matched_products
                                          ELSE rest]]
    /\ UNCHANGED sharedVars

\* one iteration of the second loop: phi[product_id] /= denominator;
\* numerator += phi[product_id] * log(...).  Every division is by the same
\* denominator, so numerator holds the sum before the division.
SatoVartia_second_loop(t) ==
    /\ threads[t].pc = "second_loop"
    /\ LET fr == frames[FrameOf(t)]
       IN  \E i \in fr.todo :
             LET rest == fr.todo \ {i}
             IN  IF i \notin DOMAIN fr.phi
                 THEN /\ Finish(t, "sato_vartia_index", Raise("KeyError", i))
                      /\ UNCHANGED frames
                 ELSE IF fr.denominator = RZero
                 THEN /\ Finish(t, "sato_vartia_index",
                                Raise("ZeroDivisionError", DivByZero))
                      /\ UNCHANGED frames
                 ELSE /\ Goto(t, "sato_vartia_index",
                              IF rest = {} THEN "return" ELSE "second_loop")
                      /\ frames' = [frames EXCEPT ![FrameOf(t)] =
                             [fr EXCEPT
                                 !.divided = fr.divided \cup {i},
                                 !.numerator =
                                     RAdd(fr.numerator,
                                          XTimesLF(fr.phi[i],
                                                   Log(Q(prices_t[i], prices_0[i])))),
                                 !.todo = rest]]
    /\ UNCHANGED sharedVars

\* return exp(numerator) * normalization_value
SatoVartia_return(t) ==
    /\ threads[t].pc = "return"
    /\ threads[t].fn = "sato_vartia_index"
    /\ LET fr == frames[FrameOf(t)]
       IN  Finish(t, "sato_vartia_index",
                  IF fr.numerator = RZero
                  THEN Return(RealScale(RealOf(Exp(LFZero), ROne), normalization_value))
                  ELSE Return(ExpX(fr.numerator, fr.denominator, normalization_value)))
    /\ UNCHANGED <<frames, sharedVars>>

\* bmw_index up to its loop
Enter_bmw_index(t) ==
    /\ called = "shared"
    /\ threads[t].pc = "idle"
    /\ LET matched_products == keys(prices_0) \cap keys(prices_t)
       IN  IF matched_products = {}
           THEN /\ Finish(t, "bmw_index", Raise("ValueError", NoMatched))
                /\ UNCHANGED frames
           ELSE /\ Goto(t, "bmw_index", "loop")
                /\ frames' = [frames EXCEPT ![FrameOf(t)] =
                       [NoLocals EXCEPT !.matched_products = matched_products,
                                        !.todo = matched_products]]
    /\ UNCHANGED sharedVars

\* one iteration of the loop: numerator += price_ratio * weight;
\* denominator += weight
Bmw_loop(t) ==
    /\ threads[t].pc = "loop"
    /\ LET fr == frames[FrameOf(t)]
       IN  \E i \in fr.todo :
             LET price_ratio == Q(prices_t[i], prices_0[i])
                 weight == Pow(Q(prices_0[i], prices_t[i]), Q(1, 2))
                 rest == fr.todo \ {i}
             IN  /\ Goto(t, "bmw_index", IF rest = {} THEN "return" ELSE "loop")
                 /\ frames' = [frames EXCEPT ![FrameOf(t)] =
                        [fr EXCEPT
                            !.numerator = RAdd(fr.numerator, RScale(weight, price_ratio)),
                            !.denominator = RAdd(fr.denominator, weight),
                            !.todo = rest]]
    /\ UNCHANGED sharedVars

\* the check of the denominator and the return
Bmw_return(t) ==
    /\ threads[t].pc = "return"
    /\ threads[t].fn = "bmw_index"
    /\ LET fr == frames[FrameOf(t)]
       IN  Finish(t, "bmw_index",
                  IF fr.denominator = RZero THEN Raise("ValueError", BmwZero)
                  ELSE Return(RealScale(RealOf(fr.numerator, fr.denominator),
                                        normalization_value)))
    /\ UNCHANGED <<frames, sharedVars>>

\* both calls are over: the callers drop the maps and the outcomes
Join ==
    /\ \A t \in Threads : threads[t].pc = "done"
    /\ called' = "none"
    /\ prices_0' = NoMap
    /\ prices_t' = NoMap
    /\ quantities_0' = NoMap
    /\ quantities_t' = NoMap
    /\ normalization_value' = DEFAULT_NORMALIZATION_VAL
    /\ threads' = IdleThreads
    /\ frames' = NoFrames
    /\ UNCHANGED <<dfArgs, result, module_constants, failed_before>>

NextThreads ==
    \/ Share_maps
    \/ \E t \in Threads : Enter_sato_vartia_index(t)
    \/ \E t \in Threads : SatoVartia_first_loop(t)
    \/ \E t \in Threads : SatoVartia_second_loop(t)
    \/ \E t \in Threads : SatoVartia_return(t)
    \/ \E t \in Threads : Enter_bmw_index(t)
    \/ \E t \in Threads : Bmw_loop(t)
    \/ \E t \in Threads : Bmw_return(t)
    \/ Join

SpecThreads == Init /\ [][NextThreads]_vars

(***************************************************************************)
(* C17: whatever the interleaving of the steps of two concurrent calls     *)
(* (of sato_vartia_index or bmw_index, on the very same maps), a caller    *)
(* whose call is over has the outcome the function gives on those maps     *)
(* when it runs alone.                                                     *)
(***************************************************************************)
C17_InterleavingHarmless ==
    \A t \in Threads :
        threads[t].pc = "done" =>
            SameOutcome(threads[t].outcome,
                        DictCall(threads[t].fn, prices_0, prices_t, quantities_0,
                                 quantities_t, normalization_value))

\* caller 1 has its Sato-Vartia index while caller 2 is in the middle of its
\* second loop over the same maps
C17_Witness ==
    /\ threads[1].pc = "done" /\ threads[1].fn = "sato_vartia_index"
    /\ threads[1].outcome.kind = "value"
    /\ ~RealEq(threads[1].outcome.val, RealOfQ(QInt(normalization_value)))
    /\ threads[2].pc = "second_loop"
    /\ frames[FrameOf(2)].divided # {}
    /\ frames[FrameOf(1)].divided = frames[FrameOf(1)].matched_products

\* the two baskets of a Fisher call
LaspeyresBasket == keys(ArgPrices0) \cap keys(ArgPricesT) \cap keys(ArgQuantities0)
PaascheBasket == keys(ArgPrices0) \cap keys(ArgPricesT) \cap keys(ArgQuantitiesT)
\* the outcomes of the two sub-calls of the Fisher call in the current state
FisherLaspeyres ==
    IF called = "fisher_index"
    THEN laspeyres_index(prices_0, prices_t, quantities_0, normalization_value)
    ELSE laspeyres_index_from_df(df, base_period, compared_period, normalization_value)
FisherPaasche ==
    IF called = "fisher_index"
    THEN paasche_index(prices_0, prices_t, quantities_t, normalization_value)
    ELSE paasche_index_from_df(df, base_period, compared_period, normalization_value)

(***************************************************************************)
(* C18: fisher_index raises the empty-basket ValueError and returns no     *)
(* value when the Laspeyres basket or the Paasche basket is empty, also    *)
(* when the other sub-index has a value; fisher_index_from_df raises the   *)
(* schema error on a table that lacks a column; and whenever a sub-call    *)
(* fails, the Fisher call fails with that very exception.                  *)
(***************************************************************************)
C18_FisherErrorsPropagate ==
    /\ (called = "fisher_index" /\ (LaspeyresBasket = {} \/ PaascheBasket = {})) =>
          result = Raise("ValueError", NoMatched)
    /\ (called = "fisher_index_from_df" /\ ~(WeightedColumns \subseteq df.columns)) =>
          result = Raise("AttributeError", MissingColumns)
    /\ (called = "fisher_index_from_df" /\ WeightedColumns \subseteq df.columns
            /\ (LaspeyresBasket = {} \/ PaascheBasket = {})) =>
          result = Raise("ValueError", NoMatchedDf)
    /\ called \in {"fisher_index", "fisher_index_from_df"} =>
          /\ FisherLaspeyres.kind # "value" => result = FisherLaspeyres
          /\ (FisherLaspeyres.kind = "value" /\ FisherPaasche.kind # "value") =>
                result = FisherPaasche

C18_Witness ==
    /\ called = "fisher_index"
    /\ LaspeyresBasket = Products
    /\ PaascheBasket = {}
    /\ FisherLaspeyres.kind = "value"
    /\ result = Raise("ValueError", NoMatched)

(***************************************************************************)
(* The share-weighted formulas on maps of two products and on sub-maps of  *)
(* the test suite's three-product maps, where a product can be supplied    *)
(* for a period without being matched.                                     *)
(***************************************************************************)
Scenario_tornqvist_index ==
    /\ called = "none"
    /\ \E S0 \in ScenarioSubsets, St \in ScenarioSubsets,
          Q0 \in ScenarioSubsets, Qt \in ScenarioSubsets :
          /\ called' = "tornqvist_index"
          /\ prices_0' = SubMap(scenario_prices_0, S0)
          /\ prices_t' = SubMap(scenario_prices_t, St)
          /\ quantities_0' = SubMap(scenario_quantities_0, Q0)
          /\ quantities_t' = SubMap(scenario_quantities_t, Qt)
          /\ normalization_value' = DEFAULT_NORMALIZATION_VAL
          /\ result' = tornqvist_index(prices_0', prices_t', quantities_0',
                                       quantities_t', normalization_value')
    /\ UNCHANGED dfArgs
    /\ UNCHANGED otherVars

Scenario_sato_vartia_index ==
    /\ called = "none"
    /\ \E S0 \in ScenarioSubsets, St \in ScenarioSubsets,
          Q0 \in ScenarioSubsets, Qt \in ScenarioSubsets :
          /\ called' = "sato_vartia_index"
          /\ prices_0' = SubMap(scenario_prices_0, S0)
          /\ prices_t' = SubMap(scenario_prices_t, St)
          /\ quantities_0' = SubMap(scenario_quantities_0, Q0)
          /\ quantities_t' = SubMap(scenario_quantities_t, Qt)
          /\ normalization_value' = DEFAULT_NORMALIZATION_VAL
          /\ result' = sato_vartia_index(prices_0', prices_t', quantities_0',
                                         quantities_t', normalization_value')
    /\ UNCHANGED dfArgs
    /\ UNCHANGED otherVars

NextWeights ==
    \/ Call_tornqvist_index
    \/ Call_sato_vartia_index
    \/ Scenario_tornqvist_index
    \/ Scenario_sato_vartia_index
    \/ Discard

SpecWeights == Init /\ [][NextWeights]_vars

\* the least common multiple of the denominators of f's values over S
RECURSIVE DenLcm(_, _)
DenLcm(f, S) ==
    IF S = {} THEN 1
    ELSE LET p == CHOOSE r \in S : TRUE
             rest == DenLcm(f, S \ {p})
         IN  (f[p][2] * rest) \div GCD(f[p][2], rest)

RECURSIVE IntPow(_, _)
IntPow(b, e) == IF e = 0 THEN 1 ELSE b * IntPow(b, e - 1)

\* prod of p^max(sign * e[p], 0) over p \in S
RECURSIVE PrimePowers(_, _, _)
PrimePowers(e, sign, S) ==
    IF S = {} THEN 1
    ELSE LET p == CHOOSE r \in S : TRUE
         IN  (IF sign * e[p] > 0 THEN IntPow(p, sign * e[p]) ELSE 1)
                 * PrimePowers(e, sign, S \ {p})

\* the sign of the number a log form f denotes: f is scaled to integer
\* exponents e, and prod p^e is compared with 1
LFSign(f) ==
    LET scale == DenLcm(f, DOMAIN f)
        e == [p \in DOMAIN f |-> (f[p][1] * scale) \div f[p][2]]
        up == PrimePowers(e, 1, DOMAIN f)
        down == PrimePowers(e, -1, DOMAIN f)
    IN  IF up > down THEN 1 ELSE IF up < down THEN -1 ELSE 0

\* a sum of reciprocals of log forms whose every term is positive
XPositive(a) ==
    /\ a # RZero
    /\ \A y \in DOMAIN a :
          \/ QLess(QZero, a[y]) /\ LFSign(y) = 1
          \/ QLess(a[y], QZero) /\ LFSign(y) = -1

(***************************************************************************)
(* C19: in a tornqvist_index call with a non-empty matched set the weights *)
(* (s0_i + st_i)/2, the shares taken with totals over the matched set, are *)
(* all positive and sum to exactly 1; in a sato_vartia_index call where no *)
(* matched product has equal shares, the shares are those with totals over *)
(* the matched set, every phi_i is a quotient of positive numbers over the *)
(* common denominator, the phi_i before division sum to that denominator   *)
(* (so the normalized phi_i sum to 1), and the call returns a value.       *)
(***************************************************************************)
C19_ProperWeights ==
    /\ (called = "tornqvist_index" /\ CallMatched # {}) =>
          LET w == tornqvist_weights(prices_0, prices_t, quantities_0, quantities_t)
          IN  /\ DOMAIN w = CallMatched
              /\ \A i \in CallMatched :
                    /\ w[i] = QDiv(QAdd(Share0(i), ShareT(i)), QInt(2))
                    /\ QLess(QZero, w[i])
              /\ QSumOver(w, CallMatched) = QOne
    /\ (called = "sato_vartia_index" /\ CallMatched # {}
            /\ \A i \in CallMatched : Share0(i) # ShareT(i)) =>
          LET share ==
                  sato_vartia_shares(prices_0, prices_t, quantities_0, quantities_t)
              phi ==
                  sato_vartia_normalized(prices_0, prices_t, quantities_0, quantities_t)
          IN  /\ DOMAIN phi = CallMatched
              /\ \A i \in CallMatched :
                    /\ share[i].s0 = Share0(i)
                    /\ share[i].st = ShareT(i)
                    /\ XPositive(phi[i].over)
                    /\ XPositive(phi[i].under)
                    /\ \A j \in CallMatched : phi[j].under = phi[i].under
                    /\ RSumOver([j \in CallMatched |-> phi[j].over], CallMatched)
                          = phi[i].under
              /\ result.kind = "value"

\* a sato_vartia_index call that returns a value while a product supplied
\* for both periods' prices and the base quantities is not matched
C19_Witness ==
    /\ called = "sato_vartia_index"
    /\ CallMatched = {"a", "b"}
    /\ "c" \in keys(prices_0) \cap keys(prices_t) \cap keys(quantities_0)
    /\ \A i \in CallMatched : Share0(i) # ShareT(i)
    /\ result.kind = "value"

\* the adapters that check the columns of the table (dutot_index_from_df
\* does not)
AdaptersWithColumnCheck == AdapterNames \ {"dutot_index_from_df"}

\* the product ids of the table's rows for a period
RowProducts(d, period) ==
    {r[PD_DEFAULT_PRODUCT_ID_COL] :
        r \in {x \in d.rows : x[PD_DEFAULT_TIME_PERIOD_COL] = period}}

\* no product has a row in both periods (none can, when the table lacks the
\* product or the period column)
NoProductMatched(d, b, c) ==
    {PD_DEFAULT_PRODUCT_ID_COL, PD_DEFAULT_TIME_PERIOD_COL} \subseteq d.columns =>
        RowProducts(d, b) \cap RowProducts(d, c) = {}

(***************************************************************************)
(* C20: an adapter that has a column check, called on a table that lacks a *)
(* column it requires and in which no product has rows in both periods,    *)
(* fails with the schema error and not with the empty-basket error.        *)
(***************************************************************************)
C20_ColumnCheckFirst ==
    (called \in AdaptersWithColumnCheck
        /\ ~(RequiredColumns(called) \subseteq df.columns)
        /\ NoProductMatched(df, base_period, compared_period)) =>
        IsSchemaError(result) /\ ~IsEmptyBasket(result)

\* sato_vartia_index_from_df on a table without the quantity column, with
\* rows in both periods and no product in both
C20_Witness ==
    /\ called = "sato_vartia_index_from_df"
    /\ df.columns = WeightedColumns \ {PD_DEFAULT_QUANTITY_COL}
    /\ base_period # compared_period
    /\ RowProducts(df, base_period) # {}
    /\ RowProducts(df, compared_period) # {}
    /\ RowProducts(df, base_period) \cap RowProducts(df, compared_period) = {}
    /\ IsSchemaError(result)

(***************************************************************************)
(* The adapters on tables that hold up to three periods, so that a call    *)
(* can leave a period aside whatever its two periods are.  The tables have *)
(* the four columns, a row at most per product and period, and quantity 1  *)
(* everywhere.                                                             *)
(***************************************************************************)
ThreePeriods == {0, 1, 2}

PeriodCells == Products \X ThreePeriods

PeriodFrames ==
    UNION {{[columns |-> AllColumns,
             rows |-> {Row(c, <<f[c], 1>>) : c \in S}] : f \in [S -> Prices]}
             : S \in SUBSET PeriodCells}

Call_on_periods ==
    /\ called = "none"
    /\ \E name \in AdapterNames, d \in PeriodFrames,
          b \in ThreePeriods, c \in ThreePeriods :
          /\ called' = name
          /\ df' = d
          /\ base_period' = b
          /\ compared_period' = c
          /\ normalization_value' = DEFAULT_NORMALIZATION_VAL
          /\ result' = DfCall(name, d, b, c, normalization_value')
    /\ UNCHANGED dictArgs
    /\ UNCHANGED otherVars

NextPeriods ==
    \/ Call_on_periods
    \/ Discard

SpecPeriods == Init /\ [][NextPeriods]_vars

\* the table d without the rows of the periods other than b and c
SelectedRows(d, b, c) ==
    [columns |-> d.columns,
     rows |-> {r \in d.rows : r[PD_DEFAULT_TIME_PERIOD_COL] \in {b, c}}]

(***************************************************************************)
(* C21: the outcome (value or exception) of an adapter call on a table is  *)
(* the outcome of the same call on the table without the rows whose period *)
(* is neither base_period nor compared_period; so two tables with the same *)
(* rows for the two periods give the same outcome, whatever other rows     *)
(* they hold.                                                              *)
(***************************************************************************)
C21_OtherPeriodsIgnored ==
    called \in AdapterNames =>
        SameOutcome(result,
                    DfCall(called, SelectedRows(df, base_period, compared_period),
                           base_period, compared_period, normalization_value))

\* laspeyres_index_from_df returns a value for two different periods on a
\* table that also has a row for the third period
C21_Witness ==
    /\ called = "laspeyres_index_from_df"
    /\ base_period # compared_period
    /\ \E r \in df.rows : r[PD_DEFAULT_TIME_PERIOD_COL] \notin {base_period, compared_period}
    /\ result.kind = "value"

\* the rows of the table d for a period
PeriodRows(d, period) == {r \in d.rows : r[PD_DEFAULT_TIME_PERIOD_COL] = period}

\* the table d with the quantity g[r] in each row r of the period
WithQuantities(d, period, g) ==
    [columns |-> d.columns,
     rows |-> (d.rows \ PeriodRows(d, period))
                  \cup {[r EXCEPT ![PD_DEFAULT_QUANTITY_COL] = g[r]]
                           : r \in PeriodRows(d, period)}]

\* the period whose quantities the fixed-basket adapter does not use
UnusedQuantityPeriod ==
    IF called = "laspeyres_index_from_df" THEN compared_period ELSE base_period

(***************************************************************************)
(* C22: the outcome of laspeyres_index_from_df is the same on every table  *)
(* that differs from the table of the call only in the quantities of the   *)
(* compared period's rows, and the outcome of paasche_index_from_df the    *)
(* same on every table that differs only in the quantities of the base     *)
(* period's rows.                                                          *)
(***************************************************************************)
C22_FixedBasketIndependence ==
    (called \in {"laspeyres_index_from_df", "paasche_index_from_df"}
        /\ {PD_DEFAULT_QUANTITY_COL, PD_DEFAULT_TIME_PERIOD_COL} \subseteq df.columns) =>
        \A g \in [PeriodRows(df, UnusedQuantityPeriod) -> Quantities] :
            SameOutcome(result,
                        DfCall(called, WithQuantities(df, UnusedQuantityPeriod, g),
                               base_period, compared_period, normalization_value))

\* laspeyres_index_from_df returns a value on two matched products whose
\* price relatives differ and whose compared-period quantities are not the
\* base-period ones
C22_Witness ==
    /\ called = "laspeyres_index_from_df"
    /\ base_period # compared_period
    /\ result.kind = "value"
    /\ CallMatched = Products
    /\ ArgPricesT["a"] * ArgPrices0["b"] # ArgPricesT["b"] * ArgPrices0["a"]
    /\ ArgQuantitiesT # ArgQuantities0

\* the table of the call has the price, product-id and period columns and
\* no quantity column
NoQuantityColumn == df.columns = AllColumns \ {PD_DEFAULT_QUANTITY_COL}

(***************************************************************************)
(* C23: on a table with the price, product-id and period columns and no    *)
(* quantity column, each of the four unweighted adapters does not fail     *)
(* with the schema error and returns a value when a product has rows in    *)
(* both periods (the value of the dictionary formula on the two price      *)
(* Series), and each of the six weighted adapters fails with the schema    *)
(* error.                                                                  *)
(***************************************************************************)
C23_ColumnsByFamily ==
    (called \in AdapterNames /\ NoQuantityColumn) =>
        IF FormulaOf(called) \in UnweightedNames
        THEN /\ ~IsSchemaError(result)
             /\ RowProducts(df, base_period) \cap RowProducts(df, compared_period) # {} =>
                   /\ result.kind = "value"
                   /\ SameOutcome(result,
                                  DictCall(FormulaOf(called),
                                           Series(df, base_period, PD_DEFAULT_PRICE_COL),
                                           Series(df, compared_period, PD_DEFAULT_PRICE_COL),
                                           NoMap, NoMap, normalization_value))
        ELSE result = Raise("AttributeError", MissingColumns)

\* bmw_index_from_df returns a value on a table without a quantity column
\* in which both products have rows in both periods
C23_Witness ==
    /\ called = "bmw_index_from_df"
    /\ NoQuantityColumn
    /\ base_period # compared_period
    /\ RowProducts(df, base_period) \cap RowProducts(df, compared_period) = Products
    /\ result.kind = "value"

(***************************************************************************)
(* C24: a call of bmw_index or bmw_index_from_df (positive prices) never   *)
(* raises the 'Denominator is zero' error.  With no matched product the    *)
(* call raises the empty-basket error; with a matched product every weight *)
(* sqrt(p_0/p_t) and their sum are strictly positive and the call returns  *)
(* a value; and when the matched prices are all unchanged the sum of the   *)
(* weights is the number of matched products and the value is the          *)
(* normalization value.                                                    *)
(***************************************************************************)
C24_BmwDenominatorPositive ==
    BmwCalled =>
        /\ result # Raise("ValueError", BmwZero)
        /\ ((called = "bmw_index" \/ UnweightedColumns \subseteq df.columns)
                /\ CallMatched = {}) =>
              result = Raise("ValueError", NoMatched)
        /\ CallMatched # {} =>
              /\ \A i \in CallMatched :
                    RPositive(Sqrt(Q(ArgPrices0[i], ArgPricesT[i])))
              /\ RPositive(BmwWeightSum(ArgPrices0, ArgPricesT, CallMatched))
              /\ result.kind = "value"
              /\ NoPriceChange(ArgPrices0, ArgPricesT) =>
                    /\ BmwWeightSum(ArgPrices0, ArgPricesT, CallMatched)
                          = ROfQ(QInt(Cardinality(CallMatched)))
                    /\ RealEq(result.val, RealOfQ(QInt(normalization_value)))

\* bmw_index returns a value on two matched products with different price
\* relatives
C24_Witness ==
    /\ called = "bmw_index"
    /\ CallMatched = Products
    /\ prices_t["a"] * prices_0["b"] # prices_t["b"] * prices_0["a"]
    /\ result.kind = "value"

\* the outcome is the float NaN
IsNaN(out) == out.kind = "value" /\ out.val = NaN

\* the outcome is exactly the number x
ReturnsExactly(out, x) == out.kind = "value" /\ out.val # NaN /\ RealEq(out.val, RealOfQ(QInt(x)))

\* an adapter called with the same period on both sides, on a table that
\* has the columns the adapter reads and a row for the period
SamePeriodCall ==
    /\ called \in AdapterNames
    /\ RequiredColumns(called) \subseteq df.columns
    /\ base_period = compared_period
    /\ PeriodRows(df, base_period) # {}

SatoVartiaDegenerate ==
    SatoVartiaCalled /\ \E i \in CallMatched : Share0(i) = ShareT(i)

\* what sato_vartia_index gives on the maps of the call in the current state
SatoVartiaOnMaps ==
    sato_vartia_index(ArgPrices0, ArgPricesT, ArgQuantities0, ArgQuantitiesT,
                      normalization_value)

UnitLaspeyres == laspeyres_index(prices_0, prices_t, quantities_0, 1)
UnitPaasche == paasche_index(prices_0, prices_t, quantities_t, 1)

(***************************************************************************)
(* C27: when both sub-indices are defined, fisher_index returns a value    *)
(* whose square is k * k * L * P, with L and P the Laspeyres and Paasche   *)
(* values at normalization 1; the value is |k| times the one for           *)
(* normalization 1 and is positive also for k < 0, where every other       *)
(* dictionary formula that returns a value returns a negative one.         *)
(***************************************************************************)
C27_FisherSquare ==
    /\ (called = "fisher_index" /\ UnitLaspeyres.kind = "value"
            /\ UnitPaasche.kind = "value") =>
          LET k == normalization_value
              unit == fisher_index(prices_0, prices_t, quantities_0, quantities_t, 1)
          IN  /\ result.kind = "value"
              /\ RealEq(RealMul(result.val, result.val),
                        RealScale(RealMul(UnitLaspeyres.val, UnitPaasche.val), k * k))
              /\ RealEq(result.val, RealScale(unit.val, Abs(k)))
              /\ RealPositive(result.val)
    /\ (called \in DictNames \ {"fisher_index"} /\ result.kind = "value"
            /\ normalization_value < 0) =>
          RealPositive(RealScale(result.val, -1))

\* fisher_index with a negative normalization value returns a positive
\* value on two matched products with different price relatives
C27_Witness ==
    /\ called = "fisher_index"
    /\ normalization_value < 0
    /\ CallMatched = Products
    /\ prices_t["a"] * prices_0["b"] # prices_t["b"] * prices_0["a"]
    /\ result.kind = "value"
    /\ RealPositive(result.val)

\* the call of the current state with the two periods exchanged
FisherReversed ==
    fisher_index(prices_t, prices_0, quantities_t, quantities_0, normalization_value)
CarliReversed == carli_index(prices_t, prices_0, normalization_value)

\* every matched product has the same price relative
EqualRelatives(p0, pt, M) ==
    \A i \in M, j \in M : pt[i] * p0[j] = pt[j] * p0[i]

(***************************************************************************)
(* C28: when fisher_index returns a value, the call with the periods       *)
(* exchanged returns a value too and the product of the two values is      *)
(* k * k, also when the Laspeyres and the Paasche basket differ; the       *)
(* product of carli_index and its reversed call is at least k * k, and is  *)
(* k * k exactly when all matched price relatives are equal.               *)
(***************************************************************************)
C28_FisherTimeReversal ==
    /\ (called = "fisher_index" /\ LaspeyresBasket # {} /\ PaascheBasket # {}) =>
          /\ result.kind = "value"
          /\ FisherReversed.kind = "value"
          /\ RealEq(RealMul(result.val, FisherReversed.val),
                    RealOfQ(QInt(normalization_value * normalization_value)))
    /\ (called = "carli_index" /\ CallMatched # {}) =>
          LET product == QMul(AsQ(result.val), AsQ(CarliReversed.val))
              square == QInt(normalization_value * normalization_value)
          IN  /\ ~QLess(product, square)
              /\ (product = square) <=> EqualRelatives(prices_0, prices_t, CallMatched)

\* fisher_index returns a value on a Laspeyres basket of one product and a
\* Paasche basket of two, with different price relatives
C28_Witness ==
    /\ called = "fisher_index"
    /\ LaspeyresBasket = {"a"}
    /\ PaascheBasket = Products
    /\ ~EqualRelatives(prices_0, prices_t, Products)
    /\ result.kind = "value"

\* the price relative of one matched product of the call
Lambda ==
    LET i == CHOOSE j \in CallMatched : TRUE
    IN  Q(prices_t[i], prices_0[i])

(***************************************************************************)
(* C29: when every matched product (present in all the maps the formula    *)
(* takes) has the same price relative lambda and the normalization value   *)
(* is positive, each dictionary formula other than sato_vartia_index       *)
(* returns lambda * normalization_value, whatever the quantities, and      *)
(* sato_vartia_index returns that value or none.                           *)
(***************************************************************************)
C29_Proportionality ==
    (called \in DictNames /\ normalization_value > 0 /\ CallMatched # {}
        /\ EqualRelatives(prices_0, prices_t, CallMatched)) =>
        /\ called # "sato_vartia_index" => result.kind = "value"
        /\ result.kind = "value" =>
              RealEq(result.val, RealOfQ(QMul(Lambda, QInt(normalization_value))))

(***************************************************************************)
(* The dictionary formulas on maps that break the caller's obligation:     *)
(* base prices and base quantities that can be 0 (compared prices and      *)
(* quantities stay positive).                                              *)
(***************************************************************************)
ZeroBasePrices == Maps({0, 1})
ZeroBaseQuantities == Maps({0, 1})
ZeroComparedPrices == Maps({1, 2})
ZeroComparedQuantities == Maps({1})

Call_on_zero_inputs ==
    /\ called = "none"
    /\ \E name \in DictNames, p0 \in ZeroBasePrices, pt \in ZeroComparedPrices,
          q0 \in ZeroBaseQuantities, qt \in ZeroComparedQuantities :
          /\ called' = name
          /\ prices_0' = p0
          /\ prices_t' = pt
          /\ quantities_0' = IF name \in WeightedNames \ {"paasche_index"}
                             THEN q0 ELSE NoMap
          /\ quantities_t' = IF name \in WeightedNames \ {"laspeyres_index"}
                             THEN qt ELSE NoMap
          /\ normalization_value' = DEFAULT_NORMALIZATION_VAL
          /\ result' = DictCall(name, p0, pt, q0, qt, normalization_value')
    /\ UNCHANGED dfArgs
    /\ UNCHANGED otherVars

NextZero ==
    \/ Call_on_zero_inputs
    \/ Discard

SpecZero == Init /\ [][NextZero]_vars

(***************************************************************************)
(* C30: a dictionary formula called with a non-empty matched set on maps   *)
(* with zero base prices or quantities never raises the empty-basket error *)
(* or the BMW 'Denominator is zero' error.  With a matched product of base *)
(* price 0, jevons_index, carli_index and bmw_index raise                  *)
(* ZeroDivisionError; dutot_index returns sum(p_t)/sum(p_0) times the      *)
(* normalization value whenever the matched base prices do not sum to 0;   *)
(* laspeyres_index raises ZeroDivisionError when every matched base        *)
(* quantity is 0.                                                          *)
(***************************************************************************)
C30_PositivityNotValidated ==
    (called \in DictNames /\ CallMatched # {}) =>
        /\ ~IsEmptyBasket(result)
        /\ result # Raise("ValueError", BmwZero)
        /\ (called \in {"jevons_index", "carli_index", "bmw_index"}
                /\ \E i \in CallMatched : prices_0[i] = 0) =>
              result.kind = "ZeroDivisionError"
        /\ (called = "dutot_index" /\ SumOver(prices_0, CallMatched) # 0) =>
              /\ result.kind = "value"
              /\ RealEq(result.val,
                        RealOfQ(Q(SumOver(prices_t, CallMatched) * normalization_value,
                                  SumOver(prices_0, CallMatched))))
        /\ (called = "laspeyres_index" /\ \A i \in CallMatched : quantities_0[i] = 0) =>
              result.kind = "ZeroDivisionError"

\* jevons_index raises ZeroDivisionError on two matched products, one of
\* base price 0
C30_Witness ==
    /\ called = "jevons_index"
    /\ CallMatched = Products
    /\ prices_0["a"] = 0
    /\ prices_0["b"] = 1
    /\ result.kind = "ZeroDivisionError"
====
